---- MODULE Spec2Model ----
(***************************************************************************)
(* Civic Problem Reporter: the client-side report flow.                    *)
(*                                                                         *)
(*   Home (capture / upload / preview)  --Confirm-->  ReportReview         *)
(*   ReportReview (detect, pin, submit) --submit ok-->  ReportSuccess      *)
(*                                                                         *)
(* The pages are React function components.  A component's useState cells  *)
(* are the variables below; a handler (or the completion of an awaited     *)
(* promise) runs to its next await as one action, and the effects that     *)
(* React runs after the resulting render are part of that action.          *)
(* The browser is part of the model: a URL opened from the address bar,    *)
(* Reload, and Back / Forward over the session history, whose entries      *)
(* carry the history.state that useLocation() hands to the page.           *)
(* Beside the flow, and each looked at in a specification of its own:      *)
(* the accounts (Firebase, AuthProvider, ProtectedRoute, Landing, Login,   *)
(* Signup, logout), the admin dashboard, and compressImage.                *)
(* JavaScript values are modelled by strings: a number by its decimal      *)
(* text, and undefined / null by the strings "undefined" / "null".         *)
(***************************************************************************)
EXTENDS Integers, Sequences, FiniteSets

\* ------------------------------------------------------------------ bounds
\* Asynchronous operations (detect / submit) started since the page load.
MaxOps == 3
\* Operations pending together while Home is shown: Home's own (getUserMedia,
\* getCurrentLocation, file reads) and the submissions still in flight from a
\* Review page that was left.
MaxPending == 2
\* Camera streams in existence together (live, or held by state or a closure).
MaxStreams == 1
\* Session-history entries kept besides the one shown (older ones are
\* forgotten, so Back stops there).
MaxHistory == 1
\* Operations of Home pending with which the history's entries are still
\* kept: with more pending, the entries around the one shown are forgotten.
MaxPendingWithHistory == 0
\* Largest image width, image height and maxWidth compressImage is tried on.
MaxDim == 8

\* ------------------------------------------------------- program constants
DetectMaxWidth == 800
DetectQuality == 70
SubmitMaxWidth == 1080
SubmitQuality == 80

\* --------------------------------------------------------------- JS values
Null == [null |-> TRUE]
NoImage == "none"
NoError == "none"

Falsy(v) == v \in {"0", "undefined", "null", ""}

\* a || b
Or(a, b) == IF Falsy(a) THEN b ELSE a

\* ------------------------------------------------------------- environment
\* Readings navigator.geolocation can deliver (getCurrentLocation resolves
\* with {latitude, longitude, accuracy}).
GpsReadings == { [latitude |-> "12.97", longitude |-> "77.59", accuracy |-> "5"] }

\* Points of the map the user can click or drop the marker on (e.latlng).
LatLngs == { [lat |-> "13.01", lng |-> "77.60"], [lat |-> "0", lng |-> "77.60"] }

\* Bodies POST /vision/detect can answer with (result.data).
DetectResponses ==
    { [detections |-> <<>>, message |-> "No problems found"],
      [detections |-> <<"pothole">>, message |-> "Pothole detected"] }

\* Bodies POST /report/submit can answer with (result.data).
SubmitResponses == { [report_id |-> "R1"], [report_id |-> "R2"] }

\* err.response?.data?.detail of a rejected submit: a server detail, or
\* undefined for a network error.
SubmitErrorDetails == { "Missing fields", "undefined" }

\* Files the user can select or drop: [type, content], the MIME type as
\* <<type, subtype>>.
Files == { [type |-> <<"image", "jpeg">>, content |-> "fileImg"],
           [type |-> <<"image", "png">>, content |-> "corruptImg"],
           [type |-> <<"text", "plain">>, content |-> "notes"] }

\* What the <video> of the camera view holds: no source ("none": srcObject was
\* never assigned to this element), a source whose first frame has not come
\* (videoWidth and videoHeight are 0), or a frame.
VideoStates == { "none", "loading", "playing" }

\* canvas.toDataURL('image/jpeg') of the canvas handleCapture sized and drew
\* from a video in state v: a JPEG of the frame, or 'data:,' ("emptyImg") for
\* the canvas of 0 x 0 that a video without a frame gives.
CameraFrame(v) == IF v = "playing" THEN "camImg" ELSE "emptyImg"

\* Whether new Image() with this src fires onload (a file of an image type
\* whose bytes are no image, or 'data:,', fires onerror instead).
Decodes(image) == image \notin {"corruptImg", "emptyImg"}

\* No MediaStream (the null of useState(null)); streams are 1..MaxStreams.
NoStream == 0

\* ----------------------------------------------------------- error strings
ErrAnalysis == "AI Analysis failed. You can still submit this report manually."
ErrNoLocation == "Cannot submit: Location is missing."
ErrSubmit == "Failed to submit the report."
ErrCamera == "Could not access the camera. Please check permissions and try again."
ErrHomeLocation == "Could not get location. You can add it manually in the next step."
ErrFileType == "Invalid file type. Please upload an image."

VARIABLES
    \* router and browser
    page,            \* the route shown: "home", "review", "success" or "other"
    navState,        \* location.state of the current history entry
    storage,         \* sessionStorage item 'reportData' (Null: absent)
    crashed,         \* a render threw: React has unmounted the whole tree
    past, future,    \* the session history's entries before and after this one
    entryLoad,       \* this entry was made by a document load, not by pushState
    \* Home
    capturedImage, location, homeError, homeIsLoading, isCameraActive,
    stream,          \* the MediaStream held in Home's state, or NoStream
    video,           \* the <video> element of the camera view: see VideoStates
    effectStream,    \* the stream seen by the camera effect's cleanup closure
    live,            \* the MediaStreams with tracks that are not stopped
    homeOps,         \* awaited operations started by Home
    \* ReportReview
    imageRef, manualLocation, isLoading, error, apiResult, isSubmitting,
    ops,             \* runDetection / handleFinalSubmit calls not yet finished
    nextId,          \* number of operations started, plus one
    \* history (read by the properties only)
    lastEvent,       \* the handler that ran last
    detectCalls,     \* sendImageForDetection calls of this mount since the last Retry
    heldDraft,       \* the confirmed draft of the Review page shown
    cleared,         \* a draft was cleared and none confirmed since
    \* one compressImage call, looked at alone
    img,             \* the decoded Image: [width, height]
    maxWidthArg,     \* the maxWidth argument
    canvas,          \* the canvas drawn: [width, height], or Null before onload
    \* accounts: Firebase, AuthProvider, the router, Login and Signup
    adminInviteCode, \* import.meta.env.VITE_ADMIN_INVITE_CODE of the build
    allowAnonymous,  \* import.meta.env.VITE_ALLOW_ANONYMOUS === 'true'
    authReady,       \* Firebase has restored the persisted session
    accounts,        \* uids registered with Firebase Authentication
    userDocs,        \* Firestore users/{uid}: the document's data, or Null
    currentUser,     \* auth.currentUser: a uid, or NoUser
    user, loading,   \* AuthProvider's state, the context value
    listenerCalls,   \* invocations of the auth-state listener reading a profile
    path,            \* location.pathname
    locationRole,    \* location.state?.role of the current history entry
    pathPast, pathFuture, \* the session history's entries around this one
    pathLoad,        \* this entry was made by a document load, not by pushState
    loginType, loginError,
    loginCalls,      \* Login handleSubmit calls at an await
    inviteCode, signupError,
    signupCalls,     \* Signup handleSubmit calls at an await
    sessionCalls,    \* calls of Login's logout, handleLogout and
                     \* initializeAuth at signOut or signInAnonymously
    authEvent,       \* the handler of the accounts part that ran last
    \* AdminDashboard
    serverReports,   \* the status of each report in the database
    reports,         \* AdminDashboard's reports state: id -> status, or Null
    selects,         \* the status state of each row's StatusSelect
    updates,         \* handleStatusChange calls awaiting updateReportStatus
    dashView,        \* what AdminDashboard renders: "spinner", "error", "table"
    dashEvent        \* the handler of the dashboard that ran last

homeVars == <<capturedImage, location, homeError, homeIsLoading, isCameraActive,
              stream, video, effectStream, live, homeOps>>
reviewVars == <<imageRef, manualLocation, isLoading, error, apiResult, isSubmitting>>
histVars == <<detectCalls, heldDraft, cleared>>
trail == <<past, future, entryLoad>>
sizeVars == <<img, maxWidthArg, canvas>>
authVars == <<adminInviteCode, allowAnonymous, authReady, accounts, userDocs,
              currentUser, user, loading, listenerCalls, path, locationRole,
              pathPast, pathFuture, pathLoad, loginType, loginError, loginCalls,
              inviteCode, signupError, signupCalls, sessionCalls, authEvent>>
dashVars == <<serverReports, reports, selects, dashView, updates, dashEvent>>
\* What the report flow leaves alone.
sideVars == <<sizeVars, authVars, dashVars>>
vars == <<page, navState, storage, crashed, trail, homeVars, reviewVars, ops, nextId,
          lastEvent, histVars, sizeVars, authVars, dashVars>>


\* ------------------------------------------------------------ pure helpers
\* r.f of a JavaScript object: undefined when the object has no such key.
Field(r, f) == IF f \in DOMAIN r THEN r[f] ELSE "undefined"

getLeafletCompatibleLocation(loc) ==
    IF loc = Null THEN Null
    ELSE [ lat |-> Or(Field(loc, "latitude"), Field(loc, "lat")),
           lng |-> Or(Field(loc, "longitude"), Field(loc, "lng")),
           accuracy |-> Field(loc, "accuracy") ]

\* Math.round(n / d) for n >= 0, d > 0: the nearest integer, a half upwards.
Round_Floor(n, d) == n \div d

Round(n, d) == (2 * n + d) \div (2 * d)

\* The canvas compressImage draws an image of width by height on.
CanvasSize(width, height, maxWidth) ==
    IF width > maxWidth
    THEN [width |-> maxWidth, height |-> Round(height * maxWidth, width)]
    ELSE [width |-> width, height |-> height]

\* The base64 text compressImage resolves with, by what determines it.
compressImage(dataUrl, maxWidth, quality) ==
    [src |-> dataUrl, maxWidth |-> maxWidth, quality |-> quality]

\* The request bodies built by the API client.
sendImageForDetection(imageBase64, loc) ==
    [image |-> imageBase64, latitude |-> loc.lat, longitude |-> loc.lng]

submitFinalReport(fullImageDataUrl, loc, detections) ==
    [image |-> fullImageDataUrl, location |-> loc, detections |-> detections]

\* manualLocation || {lat:0, lng:0}
DetectionLocation(ml) == IF ml = Null THEN [lat |-> "0", lng |-> "0"] ELSE ml

\* Mutant of SubmitDetections: the held detections are not passed on.
SubmitDetections_Empty(result) == <<>>

\* apiResult?.detections || []
SubmitDetections(result) == IF result = Null THEN <<>> ELSE result.detections

\* Mutant of SubmitErrorText: the server's detail is ignored.
SubmitErrorText_Generic(detail) == ErrSubmit

\* err.response?.data?.detail || "Failed to submit the report."
SubmitErrorText(detail) == Or(detail, ErrSubmit)

\* Mutant of DetectionEffectRuns: manualLocation is among the dependencies.
DetectionEffectRuns_OnLocation(mounting, locationChanged, resultChanged, errorChanged) ==
    mounting \/ locationChanged

\* The detection effect's dependency array is [imageRef]: the ref object is
\* the same on every render, so the effect runs after the first render only.
DetectionEffectRuns(mounting, locationChanged, resultChanged, errorChanged) ==
    mounting

\* if (!imageRef.current || apiResult || error) return;
DetectionGuard(image, result, err) ==
    ~(image = NoImage \/ result # Null \/ err # NoError)

\* Mutant of SubmitBlocked: the position check is missing.
SubmitBlocked_Never(ml) == FALSE

\* if (!manualLocation) { setError(...); return; }
SubmitBlocked(ml) == ml = Null

\* Mutant of RedirectsHome: the redirect effect is missing.
RedirectsHome_Never(image) == FALSE

\* if (!imageRef.current) navigate('/home');
RedirectsHome(image) == image = NoImage

\* Mutant of SubmitInFlightBlocks: Submit stays usable during a submission.
SubmitInFlightBlocks_Never(submitting) == FALSE

\* disabled={isSubmitting || ...}: no Submit press while a submission runs.
SubmitInFlightBlocks(submitting) == submitting

\* n.toFixed(d) throws a TypeError when n is undefined or null.
ToFixedThrows(n) == n \in {"undefined", "null"}

\* LocationDisplay calls latitude.toFixed and longitude.toFixed as it renders
\* (accuracy.toFixed only behind `accuracy &&`).
LocationDisplayThrows(latitude, longitude) ==
    ToFixedThrows(latitude) \/ ToFixedThrows(longitude)

\* The first render of ReportReview with image and position ml: past the
\* spinner of a missing image, LocationDisplay is rendered when ml is set.
\* Nothing catches what a render throws: React unmounts the whole tree and
\* no effect of that render runs.
ReviewRenderThrows(image, ml) ==
    /\ image # NoImage
    /\ ml # Null
    /\ LocationDisplayThrows(ml.lat, ml.lng)

\* The render of ReportSuccess with location.state st: location.lat is read
\* and LocationDisplay rendered.
SuccessRenderThrows(st) ==
    /\ st # Null
    /\ IF st.location = Null THEN TRUE
       ELSE LocationDisplayThrows(st.location.lat, st.location.lng)

\* What the rendered Review page offers.
BodyRendered == ~crashed /\ page = "review" /\ imageRef # NoImage
SubmitDisabled == SubmitInFlightBlocks(isSubmitting) \/ manualLocation = Null
CancelDisabled == isSubmitting
RetryShown == error # NoError /\ apiResult = Null
SubmitLabel ==
    IF error # NoError THEN "Submit Manually"
    ELSE IF isSubmitting THEN "Submitting..." ELSE "Submit Report"

\* Mutant of IsImageType: every file passes.
IsImageType_Any(type) == TRUE

\* file.type.startsWith('image/')
IsImageType(type) == type[1] = "image"

\* The outcome of getCurrentLocation, as the event history names it.
Outcome(coords) == IF coords = Null THEN "failed" ELSE "ok"

\* Mutant of PreviewShown: the Preview waits for a location.
PreviewShown_NeedsLocation ==
    page = "home" /\ capturedImage # NoImage /\ ~homeIsLoading /\ location # Null

\* What the rendered Home page offers.
InitialChoiceShown ==
    ~crashed /\ page = "home" /\ ~isCameraActive /\ capturedImage = NoImage
PreviewShown == page = "home" /\ capturedImage # NoImage /\ ~homeIsLoading

\* ---------------------------------------------------- operations in flight
\* A runDetection or handleFinalSubmit call between its start and its end.
\* image, loc and result are the values its closure holds; alive says that
\* the component that started it is still mounted; phase is "compress" while
\* compressImage is awaited and "sent" while the request is.
DetectOp(id, image, ml) ==
    [id |-> id, kind |-> "detect", alive |-> TRUE, phase |-> "compress",
     image |-> image, loc |-> ml, result |-> Null]

SubmitOp(id, image, ml, result) ==
    [id |-> id, kind |-> "submit", alive |-> TRUE, phase |-> "compress",
     image |-> image, loc |-> ml, result |-> result]

\* The handler that ran, with the outcome the environment chose for it.
Event(name, arg) == [name |-> name, arg |-> arg]

\* The request body of an operation whose request is sent.
Payload(o) ==
    IF o.kind = "detect"
    THEN sendImageForDetection(compressImage(o.image, DetectMaxWidth, DetectQuality),
                               DetectionLocation(o.loc))
    ELSE submitFinalReport(compressImage(o.image, SubmitMaxWidth, SubmitQuality),
                           o.loc, SubmitDetections(o.result))

\* The operations left when the component that started them is unmounted.
\* A runDetection call of an unmounted component ends in state setters that
\* do nothing, so it is dropped; a handleFinalSubmit call still navigates
\* (with the position of its closure) unless its compressImage never
\* resolves.  Of an orphan only what it can still do is kept.
Orphaned(S) ==
    { [o EXCEPT !.id = 0, !.alive = FALSE, !.image = NoImage, !.result = Null] :
        o \in { x \in S : x.kind = "submit" /\ Decodes(x.image) } }

\* Whether another operation of Home may start.
HomeOpRoom == Cardinality(homeOps) + Cardinality(ops) < MaxPending

FreeHomeId == CHOOSE i \in 1..(MaxPending + 1) : \A o \in homeOps : o.id # i

\* An awaited operation of Home: kind is "media" (getUserMedia, which will
\* deliver stream), "captureLocation" (handleCapture at its await; stream is
\* the one its closure holds, image what its canvas holds), "fileRead" or
\* "fileLocation" (processFile's reader before and after onloadend; image is
\* the file's content).  alive is as for the Review operations.
HomeOp(id, kind, image, s) ==
    [id |-> id, kind |-> kind, image |-> image, stream |-> s, alive |-> TRUE]

\* The MediaStream objects something still refers to, or whose tracks run.
StreamsInUse ==
    (live \cup {stream, effectStream} \cup {o.stream : o \in homeOps}) \ {NoStream}

FreeStream == CHOOSE s \in 1..MaxStreams : s \notin StreamsInUse

\* stopStream() of a closure that holds stream s: if (stream) { stop every
\* track; setStream(null) }.
StopTracks(l, s) == l \ {s}

\* The camera effect runs again because isCameraActive changed: the cleanup
\* registered by its previous run calls that run's stopStream, and the new
\* run's cleanup holds the stream of the present render.
EffectCleanupLive(l) == StopTracks(l, effectStream)
EffectCleanupStream(s) == IF effectStream # NoStream THEN NoStream ELSE s

\* The Home operations left when Home is unmounted: a getUserMedia promise
\* still delivers a stream and a handleCapture call still stops the stream of
\* its closure; their state setters do nothing.
OrphanedHome(S, l) ==
    { [o EXCEPT !.alive = FALSE, !.image = NoImage] :
        o \in { x \in S : x.kind = "media"
                          \/ (x.kind = "captureLocation" /\ x.stream \in l) } }

\* ------------------------------------------------- mounting and unmounting
\* The state of Home as constructed (also held while Home is not mounted),
\* with the streams l live and the operations o pending.
HomeState(l, o) ==
    /\ capturedImage' = NoImage
    /\ location' = Null
    /\ homeError' = NoError
    /\ homeIsLoading' = FALSE
    /\ isCameraActive' = FALSE
    /\ stream' = NoStream
    /\ video' = "none"
    /\ effectStream' = NoStream
    /\ live' = l
    /\ homeOps' = o

\* Home is unmounted (the camera effect's cleanup runs) or constructed anew.
HomeFresh ==
    HomeState(EffectCleanupLive(live), OrphanedHome(homeOps, EffectCleanupLive(live)))

\* The document is unloaded: the browser ends every stream and every script.
HomeLoaded == HomeState({}, {})

\* The state of ReportReview while it is not mounted.
ReviewGone ==
    /\ imageRef' = NoImage
    /\ manualLocation' = Null
    /\ isLoading' = FALSE
    /\ error' = NoError
    /\ apiResult' = Null
    /\ isSubmitting' = FALSE
    /\ detectCalls' = 0

\* ---------------------------------------------------------- session history
\* An entry of the browser's session history: the route, history.state as
\* the router reads it (location.state), and whether a document load made it.
Entry(p, st, l) == [page |-> p, state |-> st, load |-> l]

\* The entry shown.
Here == Entry(page, navState, entryLoad)

\* The entries around the one shown.
History == [past |-> past, future |-> future]

\* The entries that are kept once Home's operations are homeOps'.
HistoryRoom ==
    IF Cardinality(homeOps') > MaxPendingWithHistory THEN 0 ELSE MaxHistory

\* A step that leaves the history alone.
HistoryKept ==
    /\ past' = IF HistoryRoom = 0 THEN <<>> ELSE past
    /\ future' = IF HistoryRoom = 0 THEN <<>> ELSE future
    /\ entryLoad' = entryLoad

LastEntries(q) ==
    IF Len(q) <= HistoryRoom THEN q
    ELSE SubSeq(q, Len(q) - HistoryRoom + 1, Len(q))

\* history.pushState (navigate(), <Link>) or the load of a typed address,
\* leaving entry e: e becomes the last entry before the new one, and the
\* entries after it are dropped.
Push(h, e) == [past |-> LastEntries(Append(h.past, e)), future |-> <<>>]

\* The history with the new entry's load flag.
SetHistory(h, l) ==
    /\ past' = h.past
    /\ future' = h.future
    /\ entryLoad' = l

\* ReportReview constructed with location.state st in an entry with load
\* flag l and the entries h around it: the first render and the two effects
\* that follow it; the redirect effect's navigate('/home') pushes an entry.
\* (What becomes of Home is the caller's part.)
MountReview(st, baseOps, h, l) ==
    LET initialData == IF st # Null THEN st ELSE storage
        image == IF initialData = Null THEN NoImage
                 ELSE IF Falsy(Field(initialData, "image")) THEN NoImage
                 ELSE initialData.image
        loc == IF initialData = Null THEN Null ELSE initialData.location
        ml == getLeafletCompatibleLocation(loc)
        throws == ReviewRenderThrows(image, ml)
        redirect == RedirectsHome(image)
        detect == DetectionEffectRuns(TRUE, FALSE, FALSE, FALSE)
                  /\ DetectionGuard(image, Null, NoError)
    IN  IF throws
        THEN /\ page' = "review"
             /\ navState' = st
             /\ SetHistory(h, l)
             /\ crashed' = TRUE
             /\ ReviewGone
             /\ ops' = Orphaned(baseOps)
             /\ nextId' = nextId
        ELSE IF redirect
        THEN /\ page' = "home"
             /\ navState' = Null
             /\ SetHistory(Push(h, Entry("review", st, l)), FALSE)
             /\ crashed' = FALSE
             /\ ReviewGone
             /\ IF detect
                THEN /\ nextId <= MaxOps
                     /\ ops' = Orphaned(baseOps \cup {DetectOp(nextId, image, ml)})
                     /\ nextId' = nextId + 1
                ELSE ops' = Orphaned(baseOps) /\ nextId' = nextId
        ELSE /\ page' = "review"
             /\ navState' = st
             /\ SetHistory(h, l)
             /\ crashed' = FALSE
             /\ imageRef' = image
             /\ manualLocation' = ml
             /\ apiResult' = Null
             /\ isSubmitting' = FALSE
             /\ detectCalls' = 0
             /\ IF detect
                THEN /\ nextId <= MaxOps
                     /\ isLoading' = TRUE
                     /\ error' = NoError
                     /\ ops' = Orphaned(baseOps) \cup {DetectOp(nextId, image, ml)}
                     /\ nextId' = nextId + 1
                ELSE /\ isLoading' = FALSE
                     /\ error' = NoError
                     /\ ops' = Orphaned(baseOps)
                     /\ nextId' = nextId

\* The router is at /success with location.state st, in an entry with load
\* flag l and the entries h around it.  While React renders (rendering),
\* ReportSuccess is constructed: without a state its effect's
\* navigate('/home') pushes an entry.  After a crash only the history changes.
MountSuccess(st, baseOps, rendering, h, l) ==
    /\ IF st = Null /\ rendering
       THEN /\ page' = "home"
            /\ navState' = Null
            /\ SetHistory(Push(h, Entry("success", st, l)), FALSE)
       ELSE /\ page' = "success"
            /\ navState' = st
            /\ SetHistory(h, l)
    /\ crashed' = (~rendering \/ SuccessRenderThrows(st))
    /\ ReviewGone
    /\ ops' = Orphaned(baseOps)
    /\ nextId' = nextId

\* The router is at /home in an entry with load flag l and the entries h
\* around it.  (What becomes of Home is the caller's part.)
MountHome(baseOps, h, l) ==
    /\ page' = "home"
    /\ navState' = Null
    /\ SetHistory(h, l)
    /\ crashed' = FALSE
    /\ ReviewGone
    /\ ops' = Orphaned(baseOps)
    /\ nextId' = nextId

\* The router is at a route outside the report flow (Login, Sign Up).
MountOther(baseOps, h, l) ==
    /\ page' = "other"
    /\ navState' = Null
    /\ SetHistory(h, l)
    /\ crashed' = FALSE
    /\ ReviewGone
    /\ ops' = Orphaned(baseOps)
    /\ nextId' = nextId

\* The router renders entry e, with the entries h around it.
MountEntry(e, baseOps, h) ==
    CASE e.page = "home" -> MountHome(baseOps, h, e.load)
      [] e.page = "review" -> MountReview(e.state, baseOps, h, e.load)
      [] e.page = "success" -> MountSuccess(e.state, baseOps, TRUE, h, e.load)
      [] e.page = "other" -> MountOther(baseOps, h, e.load)

\* navigate('/home'): an entry is pushed; Home is constructed unless it is
\* the page shown.
GoHome(baseOps) ==
    /\ IF page = "home" THEN UNCHANGED homeVars ELSE HomeFresh
    /\ MountHome(baseOps, Push(History, Here), FALSE)


\* --------------------------------------------------- accounts: environment
\* Login, Signup or logout calls waiting on Firebase together.
MaxCalls == 1

\* Calls of the auth-state listener reading a profile together.
MaxListeners == 1

\* Calls pending with which the history's entries are still kept: with more
\* pending, the entries around the one shown are forgotten.
MaxCallsWithHistory == 0

\* uids of Firebase Authentication; Anon is the anonymous user's.
Uids == {"admin1", "civ1", "new1"}
Anon == "anon"
\* auth.currentUser when nobody is signed in (null).
NoUser == "null"
\* The accounts registered when the page loads, and their users/{uid}
\* documents as register wrote them; new1 is registered by Signup, and has
\* no document when its setDoc failed.
InitialAccounts == {"admin1", "civ1"}
InitialDocs ==
    [u \in Uids |-> CASE u = "admin1" -> [role |-> "admin"]
                      [] u = "civ1" -> [role |-> "civilian"]
                      [] OTHER -> Null]
\* The credentials typed into Login or Signup are those of a uid, which
\* belong to nobody until the uid is registered.
Credentials == Uids
\* The credentials typed into Signup: of an account that exists, of a new one.
SignupCredentials == {"civ1", "new1"}
\* The invite codes typed into Signup, and the codes a build is configured
\* with ("undefined": the variable is not set).
InviteCodes == {"", "secret", "wrong"}
ConfiguredCodes == {"undefined", "", "secret"}
\* The builds looked at: <<VITE_ADMIN_INVITE_CODE, VITE_ALLOW_ANONYMOUS>>.
Builds == ConfiguredCodes \X BOOLEAN

\* The Firebase User of a uid, with the fields the program reads; role is
\* not a field of it.
FirebaseUser(uid) ==
    [uid |-> uid,
     email |-> IF uid = Anon THEN "null" ELSE "user@example.org",
     role |-> "undefined"]

\* { ...currentUser, ...profile }
WithProfile(currentUser_, profile) ==
    [uid |-> currentUser_.uid, email |-> currentUser_.email, role |-> profile.role]

Paths == {"/", "/login", "/signup", "/home", "/civilian", "/admin"}
ProtectedPaths == {"/civilian", "/admin"}
\* allowedRoles of the route's ProtectedRoute.
AllowedRoles(p) ==
    IF p = "/admin" THEN <<"admin">> ELSE <<"civilian", "admin">>

ErrAccessDenied == "Access Denied: You are not an Admin."
ErrInvalidLogin == "Invalid email or password."
ErrInviteCode == "Invalid admin invite code. You will be created as a Civilian."
ErrRegister == "Failed to register"
\* err.message of what register() rejects with: Firebase Authentication's
\* error at createUserWithEmailAndPassword, Firestore's at setDoc, or
\* something thrown that has no message.
RegisterMessages(step) ==
    IF step = "createUser"
    THEN {"Firebase: Error (auth/email-already-in-use).", ""}
    ELSE {"Missing or insufficient permissions."}

\* arr.includes(x)
Includes(arr, x) == \E i \in 1..Len(arr) : arr[i] = x

\* user.role || (user.email ? 'civilian' : 'guest')
ResolvedRole(u) == Or(u.role, IF ~Falsy(u.email) THEN "civilian" ELSE "guest")

\* What ProtectedRoute returns: "Loading", the path of a <Navigate>, or
\* "children".
ProtectedRoute_AnyUser(loading_, user_, allowedRoles) ==
    IF loading_ THEN "Loading"
    ELSE IF user_ = Null THEN "/login"
    ELSE "children"

ProtectedRoute(loading_, user_, allowedRoles) ==
    IF loading_ THEN "Loading"
    ELSE IF user_ = Null THEN "/login"
    ELSE IF Len(allowedRoles) > 0 /\ ~Includes(allowedRoles, ResolvedRole(user_))
         THEN "/"
    ELSE "children"

\* What the route of path p renders for the context value {loading, user}.
Element(p, loading_, user_) ==
    IF p \in ProtectedPaths THEN ProtectedRoute(loading_, user_, AllowedRoles(p))
    ELSE "children"

\* The path shown once the route of p has rendered: a <Navigate> replaces p.
Routed(p, loading_, user_) ==
    IF Element(p, loading_, user_) \in {"/login", "/"}
    THEN Element(p, loading_, user_) ELSE p

\* profile?.role || 'civilian'
ActualRole(profile) ==
    Or(IF profile = Null THEN "undefined" ELSE profile.role, "civilian")

\* import.meta.env.VITE_ADMIN_INVITE_CODE || ''
Expected(configured) == Or(configured, "")

\* inviteCode && inviteCode === expected ? 'admin' : 'civilian'
SignupRole_AnyMatch(code, expected) ==
    IF code = expected THEN "admin" ELSE "civilian"

SignupRole(code, expected) ==
    IF ~Falsy(code) /\ code = expected THEN "admin" ELSE "civilian"

\* The accounts part before Firebase has restored a session; the document
\* was loaded at path p by a build configured with code c and flag a.
\* initializeAuth, run by AuthProvider's first effect: without a token,
\* signInAnonymously is awaited when the build allows it and auth.currentUser,
\* read as seen, is null.
InitializeAuth(a, seen) ==
    IF a /\ seen = NoUser
    THEN {[kind |-> "initializeAuth", step |-> "anonymous"]}
    ELSE {}

AuthLoaded(p, c, a) ==
    /\ adminInviteCode = c /\ allowAnonymous = a
    /\ authReady = FALSE
    /\ accounts = InitialAccounts /\ userDocs = InitialDocs
    /\ currentUser = NoUser /\ user = Null /\ loading = TRUE
    /\ listenerCalls = {}
    /\ path = p /\ locationRole = "undefined"
    /\ pathPast = <<>> /\ pathFuture = <<>> /\ pathLoad = TRUE
    /\ loginType = "civilian" /\ loginError = ""
    /\ inviteCode = "" /\ signupError = ""
    /\ loginCalls = {} /\ signupCalls = {}
    /\ sessionCalls = InitializeAuth(a, currentUser)
    /\ authEvent = Event("init", Null)

AuthIdle == AuthLoaded("/home", "undefined", FALSE)

\* -------------------------------------------------- dashboard: environment
\* updateReportStatus calls pending together.
MaxUpdates == 2

\* The reports in the database, and the values of the status <select>.
ReportIds == {"r1", "r2"}
Statuses == {"new", "in-progress", "resolved"}

\* AdminDashboard as constructed, getAdminReports pending, with the
\* database holding statuses s.
DashLoaded(s) ==
    /\ serverReports = s
    /\ reports = Null /\ selects = Null
    /\ dashView = "spinner"
    /\ updates = {}
    /\ dashEvent = Event("init", Null)

DashIdle == DashLoaded([r \in ReportIds |-> "new"])

SizeIdle ==
    /\ img = [width |-> 0, height |-> 0]
    /\ maxWidthArg = 0
    /\ canvas = Null

\* The report flow as the document loads it.
FlowInit ==
    /\ page = "home" /\ navState = Null /\ storage = Null /\ crashed = FALSE
    /\ past = <<>> /\ future = <<>> /\ entryLoad = TRUE
    /\ capturedImage = NoImage /\ location = Null /\ homeError = NoError
    /\ homeIsLoading = FALSE /\ isCameraActive = FALSE
    /\ stream = NoStream /\ video = "none" /\ effectStream = NoStream
    /\ live = {} /\ homeOps = {}
    /\ imageRef = NoImage /\ manualLocation = Null /\ isLoading = FALSE
    /\ error = NoError /\ apiResult = Null /\ isSubmitting = FALSE
    /\ ops = {} /\ nextId = 1 /\ lastEvent = Event("init", Null)
    /\ detectCalls = 0 /\ heldDraft = Null /\ cleared = FALSE

FlowVars == <<page, navState, storage, crashed, trail, homeVars, reviewVars, ops, nextId,
              lastEvent, histVars>>

\* -------------------------------------------------------------------- Init
Init ==
    /\ FlowInit
    /\ SizeIdle
    /\ AuthIdle
    /\ DashIdle

\* An action of Home leaves the router, the storage and Review alone.
HomeOnly ==
    /\ UNCHANGED <<page, navState, storage, crashed, reviewVars, ops, nextId, histVars>>
    /\ HistoryKept

\* -------------------------------------------------------------------- Home
\* "Take a Picture": setIsCameraActive(true); the camera view is rendered
\* with a new <video>, the camera effect runs again and calls getUserMedia.
TakePicture ==
    /\ InitialChoiceShown
    /\ HomeOpRoom
    /\ \E s \in 1..MaxStreams : s \notin StreamsInUse
    /\ isCameraActive' = TRUE
    /\ video' = "none"
    /\ live' = EffectCleanupLive(live)
    /\ stream' = EffectCleanupStream(stream)
    /\ effectStream' = stream
    /\ homeOps' = homeOps \cup {HomeOp(FreeHomeId, "media", NoImage, FreeStream)}
    /\ UNCHANGED <<capturedImage, location, homeError, homeIsLoading>>
    /\ lastEvent' = Event("TakePicture", Null)
    /\ UNCHANGED sideVars
    /\ HomeOnly

\* getUserMedia resolves: the stream exists from now on; setStream(mediaStream)
\* (which does nothing once Home is unmounted), and the <video>, if one is
\* rendered, gets the stream as its srcObject: its frame comes later.
GetMediaResolve ==
    \E o \in homeOps :
        /\ o.kind = "media"
        /\ live' = live \cup {o.stream}
        /\ stream' = IF o.alive THEN o.stream ELSE stream
        /\ video' = IF o.alive /\ isCameraActive THEN "loading" ELSE video
        /\ homeOps' = homeOps \ {o}
        /\ UNCHANGED <<capturedImage, location, homeError, homeIsLoading,
                       isCameraActive, effectStream>>
        /\ lastEvent' = Event("GetMediaResolve", Null)
        /\ UNCHANGED sideVars
        /\ HomeOnly

\* getUserMedia rejects: the camera error is shown.
GetMediaReject ==
    \E o \in homeOps :
        /\ o.kind = "media"
        /\ homeError' = IF o.alive THEN ErrCamera ELSE homeError
        /\ homeOps' = homeOps \ {o}
        /\ UNCHANGED <<capturedImage, location, homeIsLoading, isCameraActive,
                       stream, video, effectStream, live>>
        /\ lastEvent' = Event("GetMediaReject", Null)
        /\ UNCHANGED sideVars
        /\ HomeOnly

\* The <video> fires loadedmetadata: the first frame of its stream has come,
\* videoWidth and videoHeight are the frame's.
VideoLoaded ==
    /\ page = "home" /\ isCameraActive /\ video = "loading"
    /\ video' = "playing"
    /\ UNCHANGED <<capturedImage, location, homeError, homeIsLoading, isCameraActive,
                   stream, effectStream, live, homeOps>>
    /\ lastEvent' = Event("VideoLoaded", Null)
    /\ UNCHANGED sideVars
    /\ HomeOnly

\* The canvas is the one element every handleCapture call of this mount
\* draws on and reads after its await: a call still waiting reads what the
\* latest call drew.
Redrawn(S, frame) ==
    { IF o.alive /\ o.kind = "captureLocation" THEN [o EXCEPT !.image = frame] ELSE o :
        o \in S }

\* "Capture" (enabled while the state holds a stream, whether or not the
\* video has a frame): the canvas takes the video's size and picture, then the
\* location is awaited.
handleCapture ==
    /\ page = "home" /\ isCameraActive /\ stream # NoStream
    /\ HomeOpRoom
    /\ homeIsLoading' = TRUE
    /\ homeError' = NoError
    /\ homeOps' = Redrawn(homeOps, CameraFrame(video)) \cup
                    {HomeOp(FreeHomeId, "captureLocation", CameraFrame(video), stream)}
    /\ UNCHANGED <<capturedImage, location, isCameraActive, stream, video,
                   effectStream, live>>
    /\ lastEvent' = Event("handleCapture", Null)
    /\ UNCHANGED sideVars
    /\ HomeOnly

\* handleCapture after its await: the location result, the image read from
\* the canvas, then stopStream() of the handler's closure and
\* setIsCameraActive(false), which takes the <video> away.
CaptureLocationDone ==
    \E o \in homeOps, coords \in GpsReadings \cup {Null} :
        /\ o.kind = "captureLocation"
        /\ homeOps' = homeOps \ {o}
        /\ IF o.alive
           THEN /\ location' = coords
                /\ homeError' = IF coords = Null THEN ErrHomeLocation ELSE homeError
                /\ homeIsLoading' = FALSE
                /\ capturedImage' = o.image
                /\ stream' = NoStream
                /\ isCameraActive' = FALSE
                /\ video' = "none"
                /\ live' = IF isCameraActive
                           THEN EffectCleanupLive(StopTracks(live, o.stream))
                           ELSE StopTracks(live, o.stream)
                /\ effectStream' = IF isCameraActive THEN NoStream ELSE effectStream
           ELSE /\ live' = StopTracks(live, o.stream)
                /\ UNCHANGED <<capturedImage, location, homeError, homeIsLoading,
                               isCameraActive, stream, video, effectStream>>
        /\ lastEvent' = Event("CaptureLocationDone", Outcome(coords))
        /\ UNCHANGED sideVars
        /\ HomeOnly

\* "Upload from Device": fileInputRef.current.click() asks the browser for
\* its file chooser and returns; no state of Home changes.
handleUploadClick ==
    /\ InitialChoiceShown
    /\ UNCHANGED homeVars
    /\ lastEvent' = Event("handleUploadClick", Null)
    /\ UNCHANGED sideVars
    /\ HomeOnly

\* processFile(file) for a file that exists, up to reader.readAsDataURL.
processFile(file) ==
    /\ IF ~IsImageType(file.type)
       THEN /\ homeError' = ErrFileType
            /\ UNCHANGED <<homeIsLoading, homeOps>>
       ELSE /\ HomeOpRoom
            /\ homeError' = NoError
            /\ homeIsLoading' = TRUE
            /\ homeOps' = homeOps \cup
                   {HomeOp(FreeHomeId, "fileRead", file.content, NoStream)}
    /\ UNCHANGED <<capturedImage, location, isCameraActive, stream, video,
                   effectStream, live>>
    /\ lastEvent' = Event("processFile", file.type[1])
    /\ UNCHANGED sideVars
    /\ HomeOnly

\* The change event of the hidden file input.  Home renders the input in
\* every state and the chooser is the browser's, so the file chosen arrives
\* whatever Home shows by then.
handleFileChange ==
    \E file \in Files :
        /\ ~crashed /\ page = "home"
        /\ processFile(file)

\* A file dropped on the initial-choice area.
handleDrop ==
    \E file \in Files :
        /\ InitialChoiceShown
        /\ processFile(file)

\* reader.result when loadend fires: the file's data URL, or null after a
\* read that failed (loadend follows error as it follows load).
ReaderResults(file) == { file, NoImage }

\* The outcome of the read, as the event history names it.
ReadOutcome(result) == IF result = NoImage THEN "failed" ELSE "ok"

\* reader.onloadend up to its await: setCapturedImage(reader.result), then the
\* location is requested.
ReaderLoadEnd ==
    \E o \in homeOps :
        /\ o.kind = "fileRead"
        /\ \E result \in ReaderResults(o.image) :
              /\ capturedImage' = result
              /\ lastEvent' = Event("ReaderLoadEnd", ReadOutcome(result))
        /\ homeOps' = (homeOps \ {o}) \cup {[o EXCEPT !.kind = "fileLocation"]}
        /\ UNCHANGED <<location, homeError, homeIsLoading, isCameraActive, stream,
                       video, effectStream, live>>
        /\ UNCHANGED sideVars
        /\ HomeOnly

\* reader.onloadend after its await.
FileLocationDone ==
    \E o \in homeOps, coords \in GpsReadings \cup {Null} :
        /\ o.kind = "fileLocation"
        /\ location' = coords
        /\ homeError' = IF coords = Null THEN ErrHomeLocation ELSE homeError
        /\ homeIsLoading' = FALSE
        /\ homeOps' = homeOps \ {o}
        /\ UNCHANGED <<capturedImage, isCameraActive, stream, video, effectStream,
                       live>>
        /\ lastEvent' = Event("FileLocationDone", Outcome(coords))
        /\ UNCHANGED sideVars
        /\ HomeOnly

\* A click on the Preview map or a drop of its marker (Home's LocationMarker).
HomeSetPosition ==
    \E p \in LatLngs :
        /\ PreviewShown /\ location # Null
        /\ location' = [latitude |-> p.lat, longitude |-> p.lng,
                        accuracy |-> location.accuracy]
        /\ UNCHANGED <<capturedImage, homeError, homeIsLoading, isCameraActive,
                       stream, video, effectStream, live, homeOps>>
        /\ lastEvent' = Event("HomeSetPosition", Null)
        /\ UNCHANGED sideVars
        /\ HomeOnly

\* Mutant of RetakeLocation: Retake keeps the position.
RetakeLocation_Keep(loc) == loc

\* setLocation(null) of handleRetake.
RetakeLocation(loc) == Null

\* "Retake"; setIsCameraActive(false) runs the camera effect again when the
\* camera was active.
handleRetake ==
    /\ PreviewShown
    /\ capturedImage' = NoImage
    /\ homeError' = NoError
    /\ location' = RetakeLocation(location)
    /\ isCameraActive' = FALSE
    /\ video' = "none"
    /\ live' = IF isCameraActive THEN EffectCleanupLive(live) ELSE live
    /\ stream' = IF isCameraActive THEN EffectCleanupStream(stream) ELSE stream
    /\ effectStream' = IF isCameraActive THEN stream ELSE effectStream
    /\ UNCHANGED <<homeIsLoading, homeOps>>
    /\ lastEvent' = Event("handleRetake", Null)
    /\ UNCHANGED sideVars
    /\ cleared' = TRUE
    /\ UNCHANGED <<page, navState, storage, crashed, trail, reviewVars, ops, nextId,
                   detectCalls, heldDraft>>

\* Mutant of StorageAfterConfirm: the draft is written under 'reportData'.
StorageAfterConfirm_Persist(stored, draft) == draft

\* What handleConfirm leaves under 'reportData': it does not touch the storage.
StorageAfterConfirm(stored, draft) == stored

\* "Confirm": navigate('/report-review', {state: {image, location}}).
handleConfirm ==
    /\ PreviewShown
    /\ LET draft == [image |-> capturedImage, location |-> location]
       IN /\ storage' = StorageAfterConfirm(storage, draft)
          /\ HomeFresh
          /\ MountReview(draft, ops, Push(History, Here), FALSE)
          /\ heldDraft' = draft
    /\ cleared' = FALSE
    /\ lastEvent' = Event("handleConfirm", Null)
    /\ UNCHANGED sideVars


\* ------------------------------------------------------------ ReportReview
\* A state change of the mounted ReportReview and the render that follows:
\* the detection effect runs again when one of its dependencies changed.
ReviewRender(newLocation, newError, newResult, newLoading, newSubmitting, baseOps, baseNext) ==
    LET detect == /\ DetectionEffectRuns(FALSE, newLocation # manualLocation,
                                         newResult # apiResult, newError # error)
                  /\ DetectionGuard(imageRef, newResult, newError)
    IN  /\ imageRef' = imageRef
        /\ manualLocation' = newLocation
        /\ apiResult' = newResult
        /\ isSubmitting' = newSubmitting
        /\ IF detect
           THEN /\ baseNext <= MaxOps
                /\ isLoading' = TRUE
                /\ error' = NoError
                /\ ops' = baseOps \cup {DetectOp(baseNext, imageRef, newLocation)}
                /\ nextId' = baseNext + 1
           ELSE /\ isLoading' = newLoading
                /\ error' = newError
                /\ ops' = baseOps
                /\ nextId' = baseNext

ReviewOnly == UNCHANGED <<page, navState, storage, crashed, trail, homeVars>>

\* A click on the Review map: the pin is placed there, accuracy unknown.
MapClick ==
    \E p \in LatLngs :
        /\ BodyRendered
        /\ ReviewRender([lat |-> p.lat, lng |-> p.lng, accuracy |-> "null"],
                        error, apiResult, isLoading, isSubmitting, ops, nextId)
        /\ lastEvent' = Event("MapClick", Null)
        /\ UNCHANGED sideVars
        /\ ReviewOnly
        /\ UNCHANGED histVars

\* The Review marker dropped after a drag.
MarkerDragEnd ==
    \E p \in LatLngs :
        /\ BodyRendered /\ manualLocation # Null
        /\ ReviewRender([lat |-> p.lat, lng |-> p.lng,
                         accuracy |-> Or(manualLocation.accuracy, "null")],
                        error, apiResult, isLoading, isSubmitting, ops, nextId)
        /\ lastEvent' = Event("MarkerDragEnd", Null)
        /\ UNCHANGED sideVars
        /\ ReviewOnly
        /\ UNCHANGED histVars

\* handleFinalSubmit of the rendered page, up to its first await.
handleFinalSubmit ==
    /\ BodyRendered
    /\ IF SubmitBlocked(manualLocation)
       THEN ReviewRender(manualLocation, ErrNoLocation, apiResult, isLoading,
                         isSubmitting, ops, nextId)
       ELSE /\ nextId <= MaxOps
            /\ ReviewRender(manualLocation, NoError, apiResult, isLoading, TRUE,
                   ops \cup {SubmitOp(nextId, imageRef, manualLocation, apiResult)},
                   nextId + 1)
    /\ lastEvent' = Event("handleFinalSubmit", Null)
    /\ UNCHANGED sideVars
    /\ ReviewOnly
    /\ UNCHANGED histVars

\* A press on the Submit button, which is rendered with
\* disabled={isSubmitting || !manualLocation}.
SubmitClick ==
    /\ ~SubmitDisabled
    /\ handleFinalSubmit

\* compressImage resolves (its Image fired onload) and the request is sent.
\* The promise has no other outcome: nothing handles the Image's onerror.
CompressDone ==
    \E o \in ops :
        /\ o.phase = "compress"
        /\ Decodes(o.image)
        /\ ops' = (ops \ {o}) \cup {[o EXCEPT !.phase = "sent"]}
        /\ lastEvent' = Event("CompressDone", Null)
        /\ UNCHANGED sideVars
        /\ detectCalls' = IF o.kind = "detect" /\ o.alive THEN detectCalls + 1
                          ELSE detectCalls
        /\ UNCHANGED <<page, navState, storage, crashed, trail, homeVars, reviewVars,
                       nextId, heldDraft, cleared>>

\* POST /vision/detect answers: setApiResult(result.data), then finally.
DetectResolve ==
    \E o \in ops, data \in DetectResponses :
        /\ o.kind = "detect" /\ o.phase = "sent"
        /\ IF o.alive
           THEN ReviewRender(manualLocation, error, data, FALSE, isSubmitting,
                             ops \ {o}, nextId)
           ELSE /\ ops' = ops \ {o}
                /\ UNCHANGED <<reviewVars, nextId>>
        /\ lastEvent' = Event("DetectResolve", data)
        /\ UNCHANGED sideVars
        /\ ReviewOnly
        /\ UNCHANGED histVars

\* POST /vision/detect fails: the catch block, then finally.
DetectReject ==
    \E o \in ops :
        /\ o.kind = "detect" /\ o.phase = "sent"
        /\ IF o.alive
           THEN ReviewRender(manualLocation, ErrAnalysis, apiResult, FALSE, isSubmitting,
                             ops \ {o}, nextId)
           ELSE /\ ops' = ops \ {o}
                /\ UNCHANGED <<reviewVars, nextId>>
        /\ lastEvent' = Event("DetectReject", Null)
        /\ UNCHANGED sideVars
        /\ ReviewOnly
        /\ UNCHANGED histVars

\* POST /report/submit answers: the fallback is removed and the router goes
\* to /success with the report and the position of the handler's closure.
SubmitResolve ==
    \E o \in ops, data \in SubmitResponses :
        /\ o.kind = "submit" /\ o.phase = "sent"
        /\ storage' = Null
        /\ HomeFresh
        /\ MountSuccess([report |-> data, location |-> o.loc], ops \ {o}, ~crashed,
                        Push(History, Here), FALSE)
        /\ lastEvent' = Event("SubmitResolve", data)
        /\ UNCHANGED sideVars
        /\ heldDraft' = Null
        /\ cleared' = TRUE

\* POST /report/submit fails: the catch block.
SubmitReject ==
    \E o \in ops, detail \in SubmitErrorDetails :
        /\ o.kind = "submit" /\ o.phase = "sent"
        /\ IF o.alive
           THEN ReviewRender(manualLocation, SubmitErrorText(detail), apiResult,
                             isLoading, FALSE, ops \ {o}, nextId)
           ELSE /\ ops' = ops \ {o}
                /\ UNCHANGED <<reviewVars, nextId>>
        /\ lastEvent' = Event("SubmitReject", detail)
        /\ UNCHANGED sideVars
        /\ ReviewOnly
        /\ UNCHANGED histVars

handleCancel ==
    /\ BodyRendered /\ ~CancelDisabled
    /\ storage' = Null
    /\ GoHome(ops)
    /\ lastEvent' = Event("handleCancel", Null)
    /\ UNCHANGED sideVars
    /\ heldDraft' = Null
    /\ cleared' = TRUE

\* "Retry Analysis": the error and the result are reset.
handleRetryAnalysis ==
    /\ BodyRendered /\ RetryShown
    /\ ReviewRender(manualLocation, NoError, Null, isLoading, isSubmitting, ops, nextId)
    /\ lastEvent' = Event("handleRetryAnalysis", Null)
    /\ UNCHANGED sideVars
    /\ detectCalls' = 0
    /\ ReviewOnly
    /\ UNCHANGED <<heldDraft, cleared>>

\* ------------------------------------------------- Layout and ReportSuccess
\* A click on the header brand, on any page.
handleHeaderClick ==
    /\ ~crashed
    /\ storage' = Null
    /\ GoHome(ops)
    /\ lastEvent' = Event("handleHeaderClick", Null)
    /\ UNCHANGED sideVars
    /\ heldDraft' = Null
    /\ UNCHANGED cleared

\* "Report Another Pothole" on the success page.
ReportAnother ==
    /\ ~crashed /\ page = "success"
    /\ GoHome(ops)
    /\ lastEvent' = Event("ReportAnother", Null)
    /\ UNCHANGED sideVars
    /\ UNCHANGED <<storage, heldDraft, cleared>>

\* A header link that leaves the report flow (Login, Sign Up).
LeaveFlow ==
    /\ ~crashed /\ page # "other"
    /\ HomeFresh
    /\ MountOther(ops, Push(History, Here), FALSE)
    /\ lastEvent' = Event("LeaveFlow", Null)
    /\ UNCHANGED sideVars
    /\ heldDraft' = Null
    /\ UNCHANGED <<storage, cleared>>

\* ----------------------------------------------------------------- browser
\* The document is loaded at a route from the address bar: scripts of the
\* old document stop, a new history entry without state is made, the
\* session storage stays.
LoadPage ==
    \E target \in {"home", "review", "success"} :
        /\ HomeLoaded
        /\ MountEntry(Entry(target, Null, TRUE), {}, Push(History, Here))
        /\ lastEvent' = Event("LoadPage", target)
        /\ UNCHANGED sideVars
        /\ heldDraft' = IF page' = "review" THEN heldDraft ELSE Null
        /\ UNCHANGED <<storage, cleared>>

\* The browser's Reload: the document is loaded again in the entry shown,
\* which keeps its history.state.
Reload ==
    /\ HomeLoaded
    /\ MountEntry(Here, {}, History)
    /\ lastEvent' = Event("Reload", page)
    /\ UNCHANGED sideVars
    /\ heldDraft' = IF page' = "review" THEN heldDraft ELSE Null
    /\ UNCHANGED <<storage, cleared>>

\* The browser goes to entry e of the session history, h being the entries
\* around e.  Within one document (sameDocument) it is a popstate event: the
\* router renders e's route with e's state, and after a crash there is no
\* router left to render.  Otherwise e's document is loaded again.
Traverse(e, h, sameDocument) ==
    IF ~sameDocument
    THEN /\ HomeLoaded
         /\ MountEntry(e, {}, h)
    ELSE IF crashed
    THEN /\ page' = e.page
         /\ navState' = e.state
         /\ SetHistory(h, e.load)
         /\ UNCHANGED <<crashed, homeVars, reviewVars, ops, nextId, detectCalls>>
    ELSE /\ IF page = "home" /\ e.page = "home" THEN UNCHANGED homeVars ELSE HomeFresh
         /\ MountEntry(e, ops, h)

\* The browser's Back.  The entry shown and the one before it belong to one
\* document when pushState made the entry shown.
Back ==
    /\ past # <<>>
    /\ LET e == past[Len(past)]
       IN  /\ Traverse(e, [past |-> SubSeq(past, 1, Len(past) - 1),
                           future |-> <<Here>> \o future],
                       ~entryLoad)
           /\ lastEvent' = Event("Back", e.page)
    /\ UNCHANGED sideVars
    /\ heldDraft' = Null
    /\ UNCHANGED <<storage, cleared>>

\* The browser's Forward.  The entry shown and the one after it belong to
\* one document when pushState made the one after.
Forward ==
    /\ future # <<>>
    /\ LET e == future[1]
       IN  /\ Traverse(e, [past |-> Append(past, Here),
                           future |-> SubSeq(future, 2, Len(future))],
                       ~e.load)
           /\ lastEvent' = Event("Forward", e.page)
    /\ UNCHANGED sideVars
    /\ heldDraft' = Null
    /\ UNCHANGED <<storage, cleared>>

Next ==
    \/ TakePicture \/ GetMediaResolve \/ GetMediaReject
    \/ VideoLoaded
    \/ handleCapture \/ CaptureLocationDone
    \/ handleUploadClick \/ handleFileChange \/ handleDrop
    \/ ReaderLoadEnd \/ FileLocationDone
    \/ HomeSetPosition \/ handleRetake \/ handleConfirm
    \/ MapClick \/ MarkerDragEnd
    \/ SubmitClick
    \/ CompressDone \/ DetectResolve \/ DetectReject
    \/ SubmitResolve \/ SubmitReject
    \/ handleCancel \/ handleRetryAnalysis
    \/ handleHeaderClick \/ ReportAnother \/ LeaveFlow
    \/ LoadPage \/ Reload \/ Back \/ Forward

Spec == Init /\ [][Next]_vars

\* Every external operation eventually succeeds or fails: an Image that
\* decodes fires onload, and each request is answered or fails.
Fairness ==
    /\ WF_vars(CompressDone)
    /\ WF_vars(DetectResolve \/ DetectReject)
    /\ WF_vars(SubmitResolve \/ SubmitReject)

LiveSpec == Init /\ [][Next]_vars /\ Fairness

\* handleFinalSubmit invoked as a function while the rendered Review page
\* holds no position: the Submit button is disabled then, so no press
\* reaches the handler's own check.
SubmitCall ==
    /\ manualLocation = Null
    /\ handleFinalSubmit

\* The report flow, and the handler called where its button is disabled.
HandlerNext == Next \/ SubmitCall

HandlerSpec == Init /\ [][HandlerNext]_vars

\* ------------------------------------------------- compressImage, by itself
\* One call of compressImage on an image of any size up to MaxDim with any
\* maxWidth up to MaxDim; the report flow stays in its initial state.
CompressInit ==
    /\ FlowInit /\ AuthIdle /\ DashIdle
    /\ img \in [width : 0..MaxDim, height : 0..MaxDim]
    /\ maxWidthArg \in 0..MaxDim
    /\ canvas = Null

\* img.onload: the canvas is sized and the image drawn on it.
ImageOnload ==
    /\ canvas = Null
    /\ canvas' = CanvasSize(img.width, img.height, maxWidthArg)
    /\ UNCHANGED <<img, maxWidthArg, FlowVars, authVars, dashVars>>

CompressNext == ImageOnload

CompressSpec == CompressInit /\ [][CompressNext]_vars

\* ------------------------------------------------------ accounts, by itself
\* Firebase Authentication, AuthProvider, the routes with their
\* ProtectedRoute, Landing, Login, Signup and the header's Logout, in a build
\* with any configured invite code, with or without anonymous sign-in; the report flow and the other parts stay in their initial states.
authFrame == <<FlowVars, sizeVars, dashVars>>
buildVars == <<adminInviteCode, allowAnonymous>>

AuthInit ==
    /\ FlowInit /\ SizeIdle /\ DashIdle
    /\ \E b \in Builds : AuthLoaded("/", b[1], b[2])

\* Calls of a component that has unmounted: what they set is dropped.
Unmounted(S) == { [c EXCEPT !.alive = FALSE] : c \in S }

\* Calls the user started that wait on Firebase.
CallsInFlight ==
    Cardinality(loginCalls) + Cardinality(signupCalls)
      + Cardinality({k \in sessionCalls : k.kind # "initializeAuth"})

\* The document users/{uid} as getDoc reads it.
DocOf(uid) == IF uid \in Uids THEN userDocs[uid] ELSE Null

\* Firebase's current user becomes u (a uid or NoUser); when it changed, the
\* auth-state listener runs to its first await.
AuthChange(u) ==
    /\ currentUser' = u
    /\ IF u = currentUser
         THEN UNCHANGED <<user, loading, listenerCalls>>
       ELSE IF u = NoUser
         THEN /\ user' = Null
              /\ loading' = FALSE
              /\ UNCHANGED listenerCalls
       ELSE /\ Cardinality(listenerCalls) < MaxListeners
            /\ listenerCalls' = listenerCalls \cup {[uid |-> u]}
            /\ UNCHANGED <<user, loading>>

\* A session-history entry of the accounts part: the URL's path, its
\* location.state?.role, and whether a document load made it.
PathEntry(p, role, l) == [path |-> p, role |-> role, load |-> l]
PathHere == PathEntry(path, locationRole, pathLoad)
PathHistory == [past |-> pathPast, future |-> pathFuture]

\* The entries kept around the one shown after the step.
PathRoom ==
    IF CallsInFlight' + Cardinality(listenerCalls') > MaxCallsWithHistory
    THEN 0 ELSE MaxHistory

LastPaths(q) ==
    IF Len(q) <= MaxHistory THEN q
    ELSE SubSeq(q, Len(q) - MaxHistory + 1, Len(q))

\* history.pushState from the entry e: the entries after it are dropped.
PathPush(h, e) == [past |-> LastPaths(Append(h.past, e)), future |-> <<>>]

\* The history is h around an entry with load flag l.
SetPaths(h, l) ==
    LET kept == IF PathRoom = 0 THEN [past |-> <<>>, future |-> <<>>] ELSE h
    IN  /\ pathPast' = kept.past
        /\ pathFuture' = kept.future
        /\ pathLoad' = l

\* No navigation: the entry shown stays.
PathsKept == SetPaths(PathHistory, pathLoad)

\* The router shows p with location.state.role = role, in the history h,
\* after the render with the new context value; a <Navigate replace> of the
\* route replaces the entry.  le, lcs, ic, se and scs are the values Login and
\* Signup have if they stay mounted.
Show(p, role, h, l, le, lcs, ic, se, scs) ==
    LET q == Routed(p, loading', user')
        loginStays == path = "/login" /\ p = "/login"
        signupStays == path = "/signup" /\ p = "/signup"
    IN  /\ path' = q
        /\ locationRole' = IF q = p THEN role ELSE "undefined"
        /\ loginType' = IF q # "/login" THEN "civilian"
                        ELSE IF loginStays THEN Or(role, loginType)
                        ELSE IF q = p THEN Or(role, "civilian")
                        ELSE "civilian"
        /\ loginError' = IF loginStays THEN le ELSE ""
        /\ loginCalls' = IF loginStays THEN lcs ELSE Unmounted(lcs)
        /\ inviteCode' = IF signupStays THEN ic ELSE ""
        /\ signupError' = IF signupStays THEN se ELSE ""
        /\ signupCalls' = IF signupStays THEN scs ELSE Unmounted(scs)
        /\ SetPaths(h, l)

\* navigate(p, { state: { role } }) and <Link to={p}>: an entry is pushed.
Go(p, role, le, lcs, ic, se, scs) ==
    Show(p, role, PathPush(PathHistory, PathHere), FALSE, le, lcs, ic, se, scs)

\* The page stays where it is, but for a <Navigate> of its ProtectedRoute.
Stay(le, lcs, se, scs) ==
    Show(path, locationRole, PathHistory, pathLoad, le, lcs, inviteCode, se, scs)

\* The document is loaded at path p with location.state.role = role: the
\* components are constructed anew and Firebase keeps the session it
\* persisted.  auth.currentUser is null until Firebase has read that session,
\* which it may or may not have done when initializeAuth runs; the listener
\* is called later in either case.
LoadAt(p, role, h, l) ==
    \E seen \in {NoUser, currentUser} :
        /\ authReady' = FALSE
        /\ user' = Null /\ loading' = TRUE
        /\ listenerCalls' = {}
        /\ path' = p /\ locationRole' = role
        /\ loginType' = IF p = "/login" THEN Or(role, "civilian") ELSE "civilian"
        /\ loginError' = ""
        /\ inviteCode' = "" /\ signupError' = ""
        /\ loginCalls' = {} /\ signupCalls' = {}
        /\ sessionCalls' = InitializeAuth(allowAnonymous, seen)
        /\ SetPaths(h, l)
        /\ UNCHANGED <<buildVars, accounts, userDocs, currentUser, authFrame>>

\* A URL is opened from the address bar: a new entry with no state.
LoadPath ==
    \E p \in Paths :
        /\ LoadAt(p, "undefined", PathPush(PathHistory, PathHere), TRUE)
        /\ authEvent' = Event("LoadPath", p)

\* The browser's Reload: the entry shown keeps its history.state.
ReloadPath ==
    /\ LoadAt(path, locationRole, PathHistory, pathLoad)
    /\ authEvent' = Event("ReloadPath", path)

\* The browser shows the entry e of its history, h being the history around
\* it: the router's popstate listener when e belongs to the document shown,
\* a load of e's URL with its history.state when it does not.
TraversePath(e, h, sameDocument) ==
    IF sameDocument
    THEN /\ UNCHANGED <<authReady, user, loading, listenerCalls, sessionCalls>>
         /\ Show(e.path, e.role, h, e.load, loginError, loginCalls, inviteCode,
                 signupError, signupCalls)
         /\ UNCHANGED <<buildVars, accounts, userDocs, currentUser, authFrame>>
    ELSE LoadAt(e.path, e.role, h, e.load)

\* The browser's Back button.
BackPath ==
    /\ pathPast # <<>>
    /\ LET e == pathPast[Len(pathPast)] IN
        /\ TraversePath(e, [past |-> SubSeq(pathPast, 1, Len(pathPast) - 1),
                            future |-> <<PathHere>> \o pathFuture], ~pathLoad)
        /\ authEvent' = Event("BackPath", e.path)

\* The browser's Forward button.
ForwardPath ==
    /\ pathFuture # <<>>
    /\ LET e == pathFuture[1] IN
        /\ TraversePath(e, [past |-> Append(pathPast, PathHere),
                            future |-> SubSeq(pathFuture, 2, Len(pathFuture))],
                        ~e.load)
        /\ authEvent' = Event("ForwardPath", e.path)

\* Firebase has restored the persisted session: the listener's first call.
AuthRestored ==
    /\ ~authReady
    /\ authReady' = TRUE
    /\ IF currentUser = NoUser
         THEN user' = Null /\ loading' = FALSE /\ UNCHANGED listenerCalls
         ELSE /\ listenerCalls' =
                    listenerCalls \cup {[uid |-> currentUser]}
              /\ UNCHANGED <<user, loading>>
    /\ UNCHANGED sessionCalls
    /\ Stay(loginError, loginCalls, signupError, signupCalls)
    /\ authEvent' = Event("AuthRestored", currentUser)
    /\ UNCHANGED <<buildVars, accounts, userDocs, currentUser, authFrame>>

\* A listener call found the document users/{uid}: setUser with the profile.
ListenerProfile ==
    \E l \in listenerCalls :
        /\ DocOf(l.uid) # Null
        /\ user' = WithProfile(FirebaseUser(l.uid), DocOf(l.uid))
        /\ loading' = FALSE
        /\ listenerCalls' = listenerCalls \ {l}
        /\ UNCHANGED sessionCalls
        /\ Stay(loginError, loginCalls, signupError, signupCalls)
        /\ authEvent' = Event("ListenerProfile", l.uid)
        /\ UNCHANGED <<buildVars, authReady, accounts, userDocs, currentUser,
                       authFrame>>

\* A listener call found no profile: getDoc(primaryRef) found no document
\* or failed, and getDoc(legacyRef), of a path nothing writes, likewise.
ListenerNoProfile ==
    \E l \in listenerCalls :
        /\ user' = FirebaseUser(l.uid)
        /\ loading' = FALSE
        /\ listenerCalls' = listenerCalls \ {l}
        /\ UNCHANGED sessionCalls
        /\ Stay(loginError, loginCalls, signupError, signupCalls)
        /\ authEvent' = Event("ListenerNoProfile", l.uid)
        /\ UNCHANGED <<buildVars, authReady, accounts, userDocs, currentUser,
                       authFrame>>

\* Landing: a role is chosen.
handleSelection ==
    \E role \in {"admin", "civilian"} :
        /\ path = "/"
        /\ UNCHANGED <<user, loading, listenerCalls, sessionCalls>>
        /\ Go("/login", role, loginError, loginCalls, inviteCode, signupError,
              signupCalls)
        /\ authEvent' = Event("handleSelection", role)
        /\ UNCHANGED <<buildVars, authReady, accounts, userDocs, currentUser,
                       authFrame>>

\* The links of Login, of Signup and of the header, and the header's brand,
\* which is shown on every page, /home included.
Links ==
    {<<"/login", "/">>, <<"/login", "/signup">>, <<"/signup", "/login">>}
      \cup { <<p, "/home">> : p \in Paths }
      \cup (IF user = Null
              THEN { <<p, q>> : p \in Paths \ {"/", "/login", "/signup"},
                                q \in {"/login", "/signup"} }
              ELSE {})

\* A link is followed or the brand is clicked: navigate() pushes an entry,
\* also when the page shown is the one navigated to.
FollowLink ==
    \E p \in Paths :
        /\ <<path, p>> \in Links
        /\ UNCHANGED <<user, loading, listenerCalls, sessionCalls>>
        /\ Go(p, "undefined", loginError, loginCalls, inviteCode, signupError,
              signupCalls)
        /\ authEvent' = Event("FollowLink", p)
        /\ UNCHANGED <<buildVars, authReady, accounts, userDocs, currentUser,
                       authFrame>>

\* loginType === 'admin' && actualRole !== 'admin'
LoginDenied_Never(type, actualRole) == FALSE

LoginDenied(type, actualRole) == type = "admin" /\ actualRole # "admin"

\* Login handleSubmit, to the await of login().
LoginSubmit ==
    \E cred \in Credentials :
        /\ path = "/login"
        /\ CallsInFlight < MaxCalls
        /\ loginError' = ""
        /\ loginCalls' = loginCalls \cup
              {[cred |-> cred, loginType |-> loginType, step |-> "login",
                alive |-> TRUE]}
        /\ authEvent' = Event("LoginSubmit", cred)
        /\ UNCHANGED <<buildVars, authReady, accounts, userDocs, currentUser, user,
                       loading, listenerCalls, path, locationRole, loginType,
                       inviteCode, signupError, signupCalls, sessionCalls,
                       authFrame>>
        /\ PathsKept

\* signInWithEmailAndPassword resolved; getUserProfile is awaited.
LoginResolve ==
    \E c \in loginCalls :
        /\ c.step = "login"
        /\ authReady
        /\ c.cred \in accounts
        /\ AuthChange(c.cred)
        /\ UNCHANGED sessionCalls
        /\ Stay(loginError,
                (loginCalls \ {c}) \cup {[c EXCEPT !.step = "getUserProfile"]},
                signupError, signupCalls)
        /\ authEvent' = Event("LoginResolve", c)
        /\ UNCHANGED <<buildVars, authReady, accounts, userDocs, authFrame>>

\* signInWithEmailAndPassword rejected: the catch block.
LoginReject ==
    \E c \in loginCalls :
        /\ c.step = "login"
        /\ loginCalls' = loginCalls \ {c}
        /\ loginError' = IF c.alive THEN ErrInvalidLogin ELSE loginError
        /\ authEvent' = Event("LoginReject", c)
        /\ UNCHANGED <<buildVars, authReady, accounts, userDocs, currentUser, user,
                       loading, listenerCalls, path, locationRole, loginType,
                       inviteCode, signupError, signupCalls, sessionCalls,
                       authFrame>>
        /\ PathsKept

\* getUserProfile resolved: the reroute logic.
GetUserProfileResolve ==
    \E c \in loginCalls :
        /\ c.step = "getUserProfile"
        /\ UNCHANGED <<user, loading, listenerCalls>>
        /\ IF LoginDenied(c.loginType, ActualRole(DocOf(c.cred)))
             THEN /\ sessionCalls' = sessionCalls \cup
                        {[kind |-> "logout", step |-> "signOut"]}
                  /\ Stay(IF c.alive THEN ErrAccessDenied ELSE loginError,
                          loginCalls \ {c}, signupError, signupCalls)
             ELSE /\ UNCHANGED sessionCalls
                  /\ Go(IF c.loginType = "admin" THEN "/admin" ELSE "/home",
                        "undefined", loginError, loginCalls \ {c}, inviteCode,
                        signupError, signupCalls)
        /\ authEvent' = Event("GetUserProfileResolve", c)
        /\ UNCHANGED <<buildVars, authReady, accounts, userDocs, currentUser,
                       authFrame>>

\* getUserProfile rejected: the catch block.
GetUserProfileReject ==
    \E c \in loginCalls :
        /\ c.step = "getUserProfile"
        /\ loginCalls' = loginCalls \ {c}
        /\ loginError' = IF c.alive THEN ErrInvalidLogin ELSE loginError
        /\ authEvent' = Event("GetUserProfileReject", c)
        /\ UNCHANGED <<buildVars, authReady, accounts, userDocs, currentUser, user,
                       loading, listenerCalls, path, locationRole, loginType,
                       inviteCode, signupError, signupCalls, sessionCalls,
                       authFrame>>
        /\ PathsKept

\* The header's Logout button: onLogout, to the await of signOut.
onLogout ==
    /\ path \notin {"/login", "/signup", "/"}
    /\ user # Null
    /\ CallsInFlight < MaxCalls
    /\ sessionCalls' = sessionCalls \cup {[kind |-> "handleLogout", step |-> "signOut"]}
    /\ authEvent' = Event("onLogout", Null)
    /\ UNCHANGED <<buildVars, authReady, accounts, userDocs, currentUser, user,
                   loading, listenerCalls, path, locationRole, loginType,
                   loginError, loginCalls, inviteCode, signupError, signupCalls,
                   authFrame>>
    /\ PathsKept

\* The call k has settled and awaits nothing more: after handleLogout,
\* onLogout navigates to '/'; Login's logout and initializeAuth end.
LogoutEnds(k) ==
    IF k.kind = "handleLogout"
    THEN Go("/", "undefined", loginError, loginCalls, inviteCode, signupError,
            signupCalls)
    ELSE Stay(loginError, loginCalls, signupError, signupCalls)

\* signOut(auth) resolved.
SignOutResolve ==
    \E k \in sessionCalls :
        /\ k.step = "signOut"
        /\ authReady
        /\ AuthChange(NoUser)
        /\ IF k.kind = "handleLogout" /\ allowAnonymous
             THEN /\ sessionCalls' =
                        (sessionCalls \ {k}) \cup {[k EXCEPT !.step = "anonymous"]}
                  /\ Stay(loginError, loginCalls, signupError, signupCalls)
             ELSE /\ sessionCalls' = sessionCalls \ {k}
                  /\ LogoutEnds(k)
        /\ authEvent' = Event("SignOutResolve", k)
        /\ UNCHANGED <<buildVars, authReady, accounts, userDocs, authFrame>>

\* signOut(auth) rejected.
SignOutReject ==
    \E k \in sessionCalls :
        /\ k.step = "signOut"
        /\ sessionCalls' = sessionCalls \ {k}
        /\ UNCHANGED <<user, loading, listenerCalls>>
        /\ LogoutEnds(k)
        /\ authEvent' = Event("SignOutReject", k)
        /\ UNCHANGED <<buildVars, authReady, accounts, userDocs, currentUser,
                       authFrame>>

\* signInAnonymously(auth) of handleLogout or of initializeAuth resolved:
\* it waits for Firebase to restore the session and then signs a new
\* anonymous user in unless the current user is anonymous already.
AnonymousResolve ==
    \E k \in sessionCalls :
        /\ k.step = "anonymous"
        /\ authReady
        /\ AuthChange(Anon)
        /\ sessionCalls' = sessionCalls \ {k}
        /\ LogoutEnds(k)
        /\ authEvent' = Event("AnonymousResolve", k)
        /\ UNCHANGED <<buildVars, authReady, accounts, userDocs, authFrame>>

\* signInAnonymously(auth) of handleLogout or of initializeAuth rejected: the
\* catch block (anonymousDisabled, which it may set, is read by nothing).
AnonymousReject ==
    \E k \in sessionCalls :
        /\ k.step = "anonymous"
        /\ sessionCalls' = sessionCalls \ {k}
        /\ UNCHANGED <<user, loading, listenerCalls>>
        /\ LogoutEnds(k)
        /\ authEvent' = Event("AnonymousReject", k)
        /\ UNCHANGED <<buildVars, authReady, accounts, userDocs, currentUser,
                       authFrame>>

\* Signup: the invite code field is edited.
setInviteCode ==
    \E code \in InviteCodes :
        /\ path = "/signup"
        /\ code # inviteCode
        /\ inviteCode' = code
        /\ authEvent' = Event("setInviteCode", code)
        /\ UNCHANGED <<buildVars, authReady, accounts, userDocs, currentUser, user,
                       loading, listenerCalls, path, locationRole, loginType,
                       loginError, loginCalls, signupError, signupCalls,
                       sessionCalls, authFrame>>
        /\ PathsKept

\* Signup handleSubmit, to the await of register().
SignupSubmit ==
    \E cred \in SignupCredentials :
        LET role == SignupRole(inviteCode, Expected(adminInviteCode)) IN
        /\ path = "/signup"
        /\ CallsInFlight < MaxCalls
        /\ signupError' = IF ~Falsy(inviteCode) /\ role # "admin"
                          THEN ErrInviteCode ELSE ""
        /\ signupCalls' = signupCalls \cup
              {[cred |-> cred, role |-> role, code |-> inviteCode,
                step |-> "createUser", alive |-> TRUE]}
        /\ authEvent' = Event("SignupSubmit", cred)
        /\ UNCHANGED <<buildVars, authReady, accounts, userDocs, currentUser, user,
                       loading, listenerCalls, path, locationRole, loginType,
                       loginError, loginCalls, inviteCode, sessionCalls,
                       authFrame>>
        /\ PathsKept

\* createUserWithEmailAndPassword resolved: the account exists and is signed
\* in; setDoc is awaited.
CreateUserResolve ==
    \E c \in signupCalls :
        /\ c.step = "createUser"
        /\ authReady
        /\ c.cred \notin accounts
        /\ accounts' = accounts \cup {c.cred}
        /\ AuthChange(c.cred)
        /\ UNCHANGED sessionCalls
        /\ Stay(loginError, loginCalls, signupError,
                (signupCalls \ {c}) \cup {[c EXCEPT !.step = "setDoc"]})
        /\ authEvent' = Event("CreateUserResolve", c)
        /\ UNCHANGED <<buildVars, authReady, userDocs, authFrame>>

\* register() rejected, at createUserWithEmailAndPassword or at setDoc:
\* setError(err.message || 'Failed to register').
RegisterReject ==
    \E c \in signupCalls :
      \E message \in RegisterMessages(c.step) :
        /\ signupCalls' = signupCalls \ {c}
        /\ signupError' = IF c.alive THEN Or(message, ErrRegister) ELSE signupError
        /\ authEvent' = Event("RegisterReject", c)
        /\ UNCHANGED <<buildVars, authReady, accounts, userDocs, currentUser, user,
                       loading, listenerCalls, path, locationRole, loginType,
                       loginError, loginCalls, inviteCode, sessionCalls,
                       authFrame>>
        /\ PathsKept

\* setDoc resolved: the user document is written, and Signup navigates to
\* /login.
SetDocResolve ==
    \E c \in signupCalls :
        /\ c.step = "setDoc"
        /\ userDocs' = [userDocs EXCEPT ![c.cred] = [role |-> c.role]]
        /\ UNCHANGED <<user, loading, listenerCalls, sessionCalls>>
        /\ Go("/login", "undefined", loginError, loginCalls, inviteCode,
              signupError, signupCalls \ {c})
        /\ authEvent' = Event("SetDocResolve", c)
        /\ UNCHANGED <<buildVars, authReady, accounts, currentUser, authFrame>>

AuthNext ==
    \/ LoadPath \/ ReloadPath \/ BackPath \/ ForwardPath
    \/ AuthRestored
    \/ ListenerProfile \/ ListenerNoProfile
    \/ handleSelection \/ FollowLink
    \/ LoginSubmit \/ LoginResolve \/ LoginReject
    \/ GetUserProfileResolve \/ GetUserProfileReject
    \/ onLogout \/ SignOutResolve \/ SignOutReject
    \/ AnonymousResolve \/ AnonymousReject
    \/ setInviteCode \/ SignupSubmit \/ CreateUserResolve \/ RegisterReject
    \/ SetDocResolve

AuthSpec == AuthInit /\ [][AuthNext]_vars

\* The accounts handler that ran in the step, or last.
AuthRan(name) == authEvent'.name = name
AuthDid(name) == authEvent.name = name

\* ---------------------------------------------------- dashboard, by itself
\* AdminDashboard from its construction on; the database holds two reports.
dashFrame == <<FlowVars, sizeVars, authVars>>

DashInit ==
    /\ FlowInit /\ SizeIdle /\ AuthIdle
    /\ \E s \in [ReportIds -> Statuses] : DashLoaded(s)

\* getAdminReports resolved: the rows are rendered, and each row's
\* StatusSelect is constructed with the report's status.
FetchResolve ==
    /\ dashView = "spinner"
    /\ reports' = serverReports
    /\ selects' = serverReports
    /\ dashView' = "table"
    /\ dashEvent' = Event("FetchResolve", Null)
    /\ UNCHANGED <<serverReports, updates, dashFrame>>

\* getAdminReports rejected: the error is shown in place of the table.
FetchReject ==
    /\ dashView = "spinner"
    /\ dashView' = "error"
    /\ dashEvent' = Event("FetchReject", Null)
    /\ UNCHANGED <<serverReports, reports, selects, updates, dashFrame>>

\* One call of handleStatusChange waiting at its await: every call is a
\* promise of its own, so two calls with the same arguments are two calls.
UpdateCall(id, reportId, newStatus) ==
    [id |-> id, reportId |-> reportId, newStatus |-> newStatus]

FreeUpdateId ==
    CHOOSE i \in 1..MaxUpdates : \A u \in updates : u.id # i

\* StatusSelect handleChange, with handleStatusChange to its await.
handleChange ==
    \E r \in ReportIds, newStatus \in Statuses :
        /\ dashView = "table"
        /\ newStatus # selects[r]
        /\ Cardinality(updates) < MaxUpdates
        /\ selects' = [selects EXCEPT ![r] = newStatus]
        /\ updates' = updates \cup {UpdateCall(FreeUpdateId, r, newStatus)}
        /\ dashEvent' = Event("handleChange", r)
        /\ UNCHANGED <<serverReports, reports, dashView, dashFrame>>

\* prevReports.map(report => report.id === reportId
\*                           ? { ...report, status: newStatus } : report)
WithStatus(prevReports, reportId, newStatus) ==
    [r \in DOMAIN prevReports |->
        IF r = reportId THEN newStatus ELSE prevReports[r]]

\* updateReportStatus resolved: the database has the new status.
UpdateResolve ==
    \E u \in updates :
        /\ serverReports' = [serverReports EXCEPT ![u.reportId] = u.newStatus]
        /\ reports' = WithStatus(reports, u.reportId, u.newStatus)
        /\ updates' = updates \ {u}
        /\ dashEvent' = Event("UpdateResolve", u.reportId)
        /\ UNCHANGED <<selects, dashView, dashFrame>>

\* updateReportStatus rejected: the catch block logs the error.
UpdateReject ==
    \E u \in updates :
        /\ updates' = updates \ {u}
        /\ dashEvent' = Event("UpdateReject", u.reportId)
        /\ UNCHANGED <<serverReports, reports, selects, dashView, dashFrame>>

DashNext ==
    \/ FetchResolve \/ FetchReject
    \/ handleChange \/ UpdateResolve \/ UpdateReject

DashSpec == DashInit /\ [][DashNext]_vars

DashRan(name) == dashEvent'.name = name
DashDid(name) == dashEvent.name = name



\* ------------------------------------------------------- step recognisers
\* The step just taken ran the named handler.
Range(q) == { q[i] : i \in 1..Len(q) }

Ran(name) == lastEvent'.name = name
Did(name) == lastEvent.name = name

DetectsOf(S) == { o \in S : o.kind = "detect" }
SubmitsOf(S) == { o \in S : o.kind = "submit" }

\* Positions the pin can hold after a click or a drag in Review.
PinPositions ==
    { [lat |-> p.lat, lng |-> p.lng, accuracy |-> a] : p \in LatLngs, a \in {"null", "5"} }

\* ------------------------------------------------------------------ claims

\* C1: for one draft in Review, sendImageForDetection is called at most once
\* between the entry into Review and a Retry Analysis press, whatever pin
\* drags and map clicks happen before, during or after the analysis.
C1_DetectAtMostOnce == detectCalls <= 1

\* C1 witness: the pin was moved in Review after the draft's detect call was
\* made.
C1_Witness ==
    /\ page = "review"
    /\ detectCalls = 1
    /\ manualLocation \in PinPositions
    /\ (Did("MapClick") \/ Did("MarkerDragEnd"))

\* C2: handleFinalSubmit called while manualLocation is null sets the local
\* validation error, starts no submission (no compression, no request),
\* leaves isSubmitting false and leaves the page, the image and the held
\* detections as they were.
C2_SubmitWithoutLocation ==
    [][ (Ran("handleFinalSubmit") /\ manualLocation = Null) =>
          /\ error' = ErrNoLocation
          /\ ops' = ops
          /\ nextId' = nextId
          /\ isSubmitting' = FALSE
          /\ page' = "review"
          /\ imageRef' = imageRef
          /\ apiResult' = apiResult
          /\ manualLocation' = Null ]_vars

\* C2 witness: Submit was invoked on a Review page that has an image and no
\* position.
C2_Witness ==
    /\ Did("handleFinalSubmit")
    /\ page = "review" /\ imageRef # NoImage
    /\ manualLocation = Null
    /\ error = ErrNoLocation

\* C3 (as claimed): a Retry Analysis press made while no detect is in flight
\* clears the error and the result and is followed by exactly one new
\* runDetection call.
C3_RetryStartsDetect ==
    [][ (Ran("handleRetryAnalysis") /\ DetectsOf(ops) = {}) =>
          /\ error' = NoError
          /\ apiResult' = Null
          /\ Cardinality(DetectsOf(ops')) = 1 ]_vars

\* C4 (as claimed): no detect request is sent for a draft without a position,
\* and so none carries placeholder coordinates.
C4_NoDetectWithoutPosition ==
    \A o \in DetectsOf(ops) : o.phase = "sent" => o.loc # Null

\* C5 (as claimed): when detect rejects, the analysis ends with the
\* analysis-failed error and no result held, and the Submit button is then
\* enabled whenever a position is set, and labelled "Submit Manually".
C5_DetectRejectLeavesSubmitEnabled ==
    [][ Ran("DetectReject") =>
          /\ error' = ErrAnalysis
          /\ apiResult' = Null
          /\ isLoading' = FALSE
          /\ SubmitLabel' = "Submit Manually"
          /\ (manualLocation' # Null => ~SubmitDisabled') ]_vars

\* The states of the /success entries of the session history, the entry
\* shown included.
SuccessStates ==
    { e.state : e \in { x \in {Here} \cup Range(past) \cup Range(future) :
                            x.page = "success" /\ x.state # Null } }

\* C6: a Submit pressed with a detect result held sends exactly that result's
\* detections, with the position of that moment; a submit success goes to
\* /success with the server's response and the position of the Submit press;
\* and /success is reached only through a submit success: a step that is not
\* one shows /success only by going back or forward to an entry that a
\* submit success made, with the report of that entry.
C6_SubmitCarriesDetectionsAndPosition ==
    [][ /\ (Ran("DetectResolve") => apiResult' = lastEvent'.arg)
        /\ (Ran("handleFinalSubmit") /\ manualLocation # Null =>
              \E o \in SubmitsOf(ops') \ ops :
                 /\ SubmitsOf(ops') \ ops = {o}
                 /\ o.loc = manualLocation
                 /\ (apiResult # Null =>
                       Payload(o).detections = apiResult.detections)
                 /\ Payload(o).location = manualLocation)
        /\ (Ran("SubmitResolve") =>
              /\ page' = "success"
              /\ navState'.report = lastEvent'.arg
              /\ \E o \in SubmitsOf(ops) :
                    /\ o \notin ops'
                    /\ o.phase = "sent"
                    /\ navState'.location = o.loc)
        /\ (\A st \in SuccessStates' :
               \/ st \in SuccessStates
               \/ Ran("SubmitResolve") /\ st = navState'
                                        /\ st.report = lastEvent'.arg)
        /\ (page' = "success" /\ ~crashed' => navState' # Null) ]_vars

\* C6 witness: the success page holds report R1 after a submit that carried a
\* pothole detection's position.
C6_Witness ==
    /\ page = "success"
    /\ Did("SubmitResolve")
    /\ navState.report = [report_id |-> "R1"]
    /\ navState.location \in PinPositions

\* C7: when submit fails for the mounted Review page, the page stays, the
\* image, the position and the held result are unchanged, isSubmitting is
\* false and Submit enabled again, and the error is the server's detail when
\* there is one and the generic message otherwise; a failed submit never
\* changes the page.
C7_SubmitFailureKeepsDraft ==
    [][ Ran("SubmitReject") =>
          /\ page' = page
          /\ navState' = navState
          /\ (page = "review" /\ (\E o \in SubmitsOf(ops) : o.alive /\ o \notin ops') =>
                /\ imageRef' = imageRef
                /\ manualLocation' = manualLocation
                /\ apiResult' = apiResult
                /\ isSubmitting' = FALSE
                /\ ~SubmitDisabled'
                /\ error' = IF lastEvent'.arg = "undefined" THEN ErrSubmit
                            ELSE lastEvent'.arg) ]_vars

\* C7 witness: Review shows the server's detail after a failed submit that had
\* a detect result and a position.
C7_Witness ==
    /\ Did("SubmitReject")
    /\ page = "review"
    /\ error = "Missing fields"
    /\ ~isSubmitting
    /\ apiResult # Null

\* C8: once a draft is cleared by Retake, Cancel or a submit success, and until
\* another draft is confirmed, 'reportData' holds nothing, and a load of
\* /report-review without navigation state reads no image and goes to /home.
C8_ClearedLeavesNoFallback ==
    [][ /\ (cleared' => storage' = Null)
        /\ (cleared /\ Ran("LoadPage") /\ lastEvent'.arg = "review" =>
              imageRef' = NoImage /\ page' = "home") ]_vars

\* C8 witness: /report-review was loaded after a clear and found no draft.
C8_Witness ==
    /\ cleared
    /\ Did("LoadPage") /\ lastEvent.arg = "review"
    /\ page = "home"
    /\ storage = Null

\* C9 (as claimed): while Review shows a confirmed draft, neither cancelled
\* nor submitted, a load of /report-review without navigation state restores
\* the draft's image and location from 'reportData'.
C9_ReloadRestoresDraft ==
    [][ (heldDraft # Null /\ Ran("LoadPage") /\ lastEvent'.arg = "review") =>
          /\ page' = "review"
          /\ imageRef' = heldDraft.image
          /\ manualLocation' = getLeafletCompatibleLocation(heldDraft.location) ]_vars

\* C10: a flow page entered without its hand-off data goes to /home: Review is
\* never rendered without an image, no operation is started without one, and
\* the success page is never shown without a report (after a render threw
\* nothing is shown, whatever the URL).
C10_NoDataRedirectsHome ==
    [][ /\ (Ran("LoadPage") /\ lastEvent'.arg = "review" /\ storage = Null =>
              page' = "home" /\ ops' = {} /\ nextId' = nextId)
        /\ (Ran("LoadPage") /\ lastEvent'.arg = "success" =>
              page' = "home" /\ navState' = Null)
        /\ (page' = "review" /\ ~crashed' => imageRef' # NoImage)
        /\ (page' = "success" /\ ~crashed' =>
              navState' # Null /\ "report" \in DOMAIN navState')
        /\ (\A o \in ops' : o.alive => o.image # NoImage) ]_vars

\* C10 witness: /report-review loaded with neither state nor fallback ended on
\* /home with nothing in flight.
C10_Witness ==
    /\ Did("LoadPage") /\ lastEvent.arg = "review"
    /\ page = "home"
    /\ ops = {}
    /\ imageRef = NoImage

\* C11: processFile on a file whose type is not an image sets the
\* invalid-file-type error at once, leaves capturedImage, isLoading and the
\* location as they were, and starts no file read, no location acquisition
\* and no detect call; from the idle Home (initial choice shown, nothing
\* loading) Home stays idle, with capturedImage null and isLoading false.
C11_NonImageFileRejected ==
    [][ (Ran("processFile") /\ lastEvent'.arg # "image") =>
          /\ homeError' = ErrFileType
          /\ capturedImage' = capturedImage
          /\ homeIsLoading' = homeIsLoading
          /\ location' = location
          /\ homeOps' = homeOps
          /\ live' = live
          /\ ops' = ops /\ nextId' = nextId
          /\ page' = "home"
          /\ (InitialChoiceShown /\ ~homeIsLoading =>
                /\ InitialChoiceShown'
                /\ capturedImage' = NoImage
                /\ ~homeIsLoading') ]_vars

\* C11 witness: a text file was selected while Home was idle; the error shows
\* and nothing is pending.
C11_Witness ==
    /\ Did("processFile") /\ lastEvent.arg = "text"
    /\ homeError = ErrFileType
    /\ InitialChoiceShown
    /\ capturedImage = NoImage /\ ~homeIsLoading
    /\ homeOps = {} /\ ops = {}

PendingAcquisitions ==
    { o \in homeOps : o.alive /\ o.kind \in {"captureLocation", "fileLocation"} }

\* The Home position is one the user set on the Preview map.
HomePinned ==
    /\ page = "home" /\ location # Null
    /\ \E p \in LatLngs : location.latitude = p.lat /\ location.longitude = p.lng

\* C13 (as claimed): the Preview is shown only when the location attempt for
\* the image it shows has completed.
C13_PreviewAfterImageAndLocation ==
    PreviewShown => \A o \in PendingAcquisitions : o.image # capturedImage

\* C14 (as claimed): once the user has set the pin, the position changes only
\* by another pin action, by Retake or Cancel, or with the page (Confirm hands
\* it to Review; leaving, reloading or a finished submission end the draft);
\* the completion of a location acquisition does not change it.
C14_PinNotOverwritten ==
    [][ /\ (HomePinned /\ location' # location =>
              lastEvent'.name \in {"HomeSetPosition", "handleRetake", "handleConfirm",
                                   "LeaveFlow", "LoadPage", "SubmitResolve"})
        /\ (page = "review" /\ manualLocation \in PinPositions
               /\ manualLocation' # manualLocation =>
              lastEvent'.name \in {"MapClick", "MarkerDragEnd", "handleCancel",
                                   "handleHeaderClick", "LeaveFlow", "LoadPage",
                                   "SubmitResolve"}) ]_vars

\* C15 (as claimed): a camera stream is live only while Home shows the camera
\* and holds that stream.
C15_StreamsReleased ==
    \A s \in live : page = "home" /\ isCameraActive /\ stream = s

\* The operations of the mounted Review page that have not ended.
AliveOps(kind) == { o \in ops : o.kind = kind /\ o.alive }

\* C16: for the draft Review shows, at most one detect call and at most one
\* submit call has been started and not ended, whatever Submit presses,
\* Retry presses, pin moves and completions happened.
C16_OneCallOfEachKind ==
    /\ Cardinality(AliveOps("detect")) <= 1
    /\ Cardinality(AliveOps("submit")) <= 1

\* C16 witness: the analysis of the page has ended with a result, a
\* submission (the third operation begun) is in flight with that result and
\* no other call of the page is, and the pin was just moved.
C16_Witness ==
    /\ page = "review"
    /\ Did("MapClick")
    /\ detectCalls = 1 /\ apiResult # Null
    /\ \E o \in AliveOps("submit") : o.phase = "sent" /\ o.id = 3 /\ o.result # Null

\* C17 (as claimed): no submission is started or in flight while the
\* analysis of the draft is still in flight.
C17_SubmitAfterAnalysis ==
    AliveOps("submit") # {} => AliveOps("detect") = {}

\* C18 (as claimed): the completion of a submission whose Review page was
\* torn down changes neither the page shown, nor its navigation state, nor
\* the stored fallback, nor the state of the page the user is on.
C18_TornDownCompletionAppliesNothing ==
    [][ ((Ran("SubmitResolve") \/ Ran("SubmitReject"))
            /\ (\E o \in ops : ~o.alive /\ o \notin ops')) =>
          /\ page' = page
          /\ navState' = navState
          /\ storage' = storage
          /\ UNCHANGED <<capturedImage, location, homeError, homeIsLoading, isCameraActive>>
          /\ UNCHANGED reviewVars ]_vars

\* C19 (as claimed): a started analysis eventually leaves Analyzing and a
\* started submission eventually ends, given that every external operation
\* eventually succeeds or fails.
C19_AsyncStepsEnd ==
    /\ isLoading ~> ~isLoading
    /\ isSubmitting ~> ~isSubmitting

\* C20: compressImage sizes its canvas so: an image wider than maxWidth gets
\* width maxWidth and the height nearest to height * maxWidth / width (a half
\* upwards); any other image keeps its width and height; the canvas is
\* never wider or higher than the image.
C20_CompressedSize ==
    canvas # Null =>
        /\ (img.width > maxWidthArg =>
              /\ canvas.width = maxWidthArg
              /\ 2 * canvas.height * img.width - img.width
                    <= 2 * img.height * maxWidthArg
              /\ 2 * img.height * maxWidthArg
                    < 2 * canvas.height * img.width + img.width)
        /\ (img.width <= maxWidthArg =>
              canvas.width = img.width /\ canvas.height = img.height)
        /\ canvas.width <= img.width
        /\ canvas.height <= img.height

\* C20 witness: an image wider than maxWidth was scaled down to a height that
\* had to be rounded upwards.
C20_Witness ==
    /\ canvas # Null
    /\ img.width > maxWidthArg
    /\ canvas.width = maxWidthArg
    /\ canvas.height * img.width > img.height * maxWidthArg

\* C21 (as claimed): a position set by a map click or a marker drag, in Home
\* or in Review, has accuracy null.
C21_ManualPinHasNullAccuracy ==
    [][ /\ (Ran("HomeSetPosition") => location'.accuracy = "null")
        /\ (Ran("MapClick") \/ Ran("MarkerDragEnd") =>
              manualLocation'.accuracy = "null") ]_vars

\* C22: Retake leaves Home idle with no image, no location, no error and the
\* camera inactive; Cancel leaves Review for /home, where Home is as
\* constructed, with no navigation state, no fallback and no Review state.
C22_RetakeAndCancelClear ==
    [][ /\ (Ran("handleRetake") =>
              /\ page' = "home"
              /\ capturedImage' = NoImage
              /\ location' = Null
              /\ homeError' = NoError
              /\ ~isCameraActive'
              /\ InitialChoiceShown')
        /\ (Ran("handleCancel") =>
              /\ page' = "home"
              /\ navState' = Null
              /\ storage' = Null
              /\ capturedImage' = NoImage /\ location' = Null /\ homeError' = NoError
              /\ ~isCameraActive' /\ InitialChoiceShown'
              /\ imageRef' = NoImage /\ manualLocation' = Null
              /\ apiResult' = Null /\ error' = NoError) ]_vars

\* C22 witness: Retake was pressed on a Preview that showed the camera too
\* (a file was chosen and the camera started); Home is idle again.
C22_Witness ==
    /\ Did("handleRetake")
    /\ InitialChoiceShown
    /\ location = Null /\ homeError = NoError
    /\ live # {}

\* C28 (as claimed): isLoading is true while a file read or a location
\* acquisition started by Home has not completed.
C28_LoadingWhilePending ==
    (page = "home"
       /\ \E o \in homeOps :
             o.alive /\ o.kind \in {"captureLocation", "fileRead", "fileLocation"})
    => homeIsLoading

\* C29 (as claimed): Confirm hands the Home location {latitude, longitude,
\* accuracy} to Review as {lat: latitude, lng: longitude, accuracy}, and a
\* null location as null.
C29_HandOffPreservesCoordinates ==
    [][ Ran("handleConfirm") =>
          manualLocation' =
            IF location = Null THEN Null
            ELSE [lat |-> location.latitude, lng |-> location.longitude,
                  accuracy |-> location.accuracy] ]_vars

\* The role the claims give a context user: user.role, else 'civilian' when
\* the user has an email, else 'guest'.
ClaimedRole(u) ==
    IF u.role \notin {"undefined", "null", ""} THEN u.role
    ELSE IF u.email \notin {"undefined", "null", ""} THEN "civilian"
    ELSE "guest"

\* The roles a protected path admits.
Admits(p, role) ==
    IF p = "/admin" THEN role = "admin" ELSE role \in {"civilian", "admin"}

\* C23: a protected route renders its children exactly when loading has
\* finished, a user is present and the user's resolved role is one the route
\* allows; so /admin, once loading has finished, is shown only to a user whose
\* role is admin.  When the listener leaves a protected route without a user
\* the page becomes /login, and with a user whose role is not allowed, '/'.
C23_DashboardsRoleGated ==
    /\ [](path \in ProtectedPaths =>
            /\ (Element(path, loading, user) = "children") <=>
                  (~loading /\ user # Null /\ Admits(path, ClaimedRole(user)))
            /\ (path = "/admin" /\ ~loading =>
                  user # Null /\ ClaimedRole(user) = "admin"))
    /\ [][ (/\ path \in ProtectedPaths
            /\ AuthRan("AuthRestored") \/ AuthRan("ListenerProfile")
                 \/ AuthRan("ListenerNoProfile")
            /\ ~loading') =>
              path' = IF user' = Null THEN "/login"
                      ELSE IF ~Admits(path, ClaimedRole(user')) THEN "/"
                      ELSE path ]_vars

\* C23 witness: the admin dashboard is rendered once the profile of the
\* signed-in admin has been read.
C23_Witness ==
    /\ AuthDid("ListenerProfile")
    /\ path = "/admin"
    /\ ~loading
    /\ user # Null
    /\ user.role = "admin"
    /\ Element(path, loading, user) = "children"

\* The session history holds an entry for /admin beside the one shown.
AdminEntryKept ==
    \E e \in Range(pathPast) \cup Range(pathFuture) : e.path = "/admin"

\* C24 (amended): when getUserProfile resolves for a login through the admin
\* portal and the profile is missing or its role is not 'admin', nothing is
\* navigated to, Login shows the access-denied error and a sign-out is
\* started, which leaves nobody signed in when signOut resolves;
\* for a login through the civilian portal the page becomes /home.  Nothing
\* else than an admin-portal login of an admin, or opening the URL /admin,
\* leads to /admin: Back and Forward show it only from a history entry, and
\* the history holds an entry for /admin only after /admin was shown.
C24_AdminPortalDeniesNonAdmin ==
    [][ /\ (AuthRan("GetUserProfileResolve") =>
              LET c == authEvent'.arg
                  profile == DocOf(c.cred)
                  isAdmin == profile # Null /\ profile.role = "admin"
              IN  /\ (c.loginType = "admin" /\ ~isAdmin =>
                        /\ path' = path
                        /\ (c.alive => loginError' = ErrAccessDenied)
                        /\ [kind |-> "logout", step |-> "signOut"] \in sessionCalls')
                  /\ (c.loginType # "admin" => path' = "/home"))
        /\ (path' = "/admin" /\ path # "/admin" =>
              \/ AuthRan("LoadPath")
              \/ /\ AuthRan("BackPath") \/ AuthRan("ForwardPath")
                 /\ AdminEntryKept
              \/ /\ AuthRan("GetUserProfileResolve")
                 /\ authEvent'.arg.loginType = "admin"
                 /\ DocOf(authEvent'.arg.cred) # Null
                 /\ DocOf(authEvent'.arg.cred).role = "admin")
        /\ (AdminEntryKept' /\ ~AdminEntryKept => path = "/admin")
        /\ (AuthRan("SignOutResolve") /\ authEvent'.arg.kind = "logout" =>
              currentUser' = NoUser) ]_vars

\* C24 (as claimed): a login through the admin portal with an account that
\* is not an admin shows the access-denied error and signs the user out:
\* once the logout() it called has ended, nobody is signed in.
C24_DeniedLoginSignsOut ==
    [][ /\ (AuthRan("GetUserProfileResolve") =>
              LET c == authEvent'.arg
                  profile == DocOf(c.cred)
                  isAdmin == profile # Null /\ profile.role = "admin"
              IN  (c.loginType = "admin" /\ ~isAdmin =>
                        /\ path' = path
                        /\ (c.alive => loginError' = ErrAccessDenied)))
        /\ ((AuthRan("SignOutResolve") \/ AuthRan("SignOutReject"))
              /\ authEvent'.arg.kind = "logout" =>
                 currentUser' = NoUser) ]_vars

\* C24 witness: an account without a profile has logged in through the admin
\* portal; Login shows the error and the sign-out is pending.
C24_Witness ==
    /\ AuthDid("GetUserProfileResolve")
    /\ authEvent.arg.loginType = "admin"
    /\ authEvent.arg.cred = "new1"
    /\ userDocs["new1"] = Null
    /\ path = "/login"
    /\ loginError = ErrAccessDenied
    /\ currentUser = "new1"
    /\ sessionCalls # {}

\* C25: the role written to users/{uid} at signup is 'admin' exactly when the
\* invite code entered at the submission is non-empty and equals the
\* configured code, and 'civilian' otherwise; nothing else writes a role.
C25_AdminOnlyByInviteCode ==
    [][ \A u \in Uids :
          userDocs'[u] # userDocs[u] =>
            /\ AuthRan("SetDocResolve")
            /\ authEvent'.arg.cred = u
            /\ userDocs'[u].role =
                 IF /\ authEvent'.arg.code # ""
                    /\ adminInviteCode # "undefined"
                    /\ authEvent'.arg.code = adminInviteCode
                 THEN "admin" ELSE "civilian" ]_vars

\* C25 witness: an account was registered as admin with the configured code.
C25_Witness ==
    /\ AuthDid("SetDocResolve")
    /\ authEvent.arg.code = "secret"
    /\ adminInviteCode = "secret"
    /\ userDocs["new1"] = [role |-> "admin"]
    /\ path = "/login"

\* C26 (as claimed): a Login submission that ends with an error leaves nobody
\* signed in: when login() failed nobody was signed in by it, and after the
\* access-denied error or a failed profile read the user is signed out or
\* the sign-out is under way.
C26_FailedLoginLeavesNoSession ==
    [][ /\ (AuthRan("LoginReject") => currentUser' = currentUser)
        /\ (\/ AuthRan("GetUserProfileReject")
            \/ (AuthRan("GetUserProfileResolve") /\
                  LoginDenied(authEvent'.arg.loginType,
                              ActualRole(DocOf(authEvent'.arg.cred))))
            => \/ currentUser' = NoUser
               \/ \E k \in sessionCalls' : k.step = "signOut") ]_vars

\* C27 (as claimed): while nobody is signed in (the listener has processed
\* the sign-out and no sign-in has followed), the context user is null.
C27_UserStaysNullAfterSignOut ==
    (authReady /\ currentUser = NoUser) => user = Null

\* C30 (as claimed): when updateReportStatus has settled for a report and no
\* other change of it is pending, its dropdown shows the status the reports
\* list has: the previous one after a failure, the new one after a success,
\* and a success changes no other report.
C30_DropdownMatchesReports ==
    [][ (DashRan("UpdateResolve") \/ DashRan("UpdateReject")) =>
          LET r == dashEvent'.arg IN
          /\ ((\A u \in updates' : u.reportId # r) => selects'[r] = reports'[r])
          /\ (DashRan("UpdateReject") => reports'[r] = reports[r])
          /\ \A o \in ReportIds \ {r} :
                reports'[o] = reports[o] /\ selects'[o] = selects[o] ]_vars

====
